---------------------------- MODULE Spec2Model ----------------------------
(***************************************************************************)
(* A model of the yw2md converter (src/test/yw2md.pyw): the Markdown file  *)
(* representation MdFile (export templates, markup conversion, line        *)
(* scanner), the yWriter project representation Yw7File (lock check, read, *)
(* merge, write) and the conversion orchestration (YwCnv.convert,          *)
(* YwCnvUi.run with its factories).                                        *)
(*                                                                         *)
(* Encoding of Python values:                                              *)
(*   str            a sequence of one-character strings                    *)
(*   list of ids    a sequence of id strings                               *)
(*   None (str/list attribute)   the one-element sequence NoneT            *)
(*   bool or None   one of the strings "True", "False", "None"             *)
(*   int or None    an integer, None being NoneI                           *)
(***************************************************************************)
EXTENDS Integers, Sequences, FiniteSets, TLC

NL == "\n"
NoneT == <<"None">>
NoneB == "None"
NoneI == -1
(* MdFile.read stores the string '1' (not the integer 1) in Scene.status   *)
(* and the string '0' in Chapter.oldType; they are kept apart from the     *)
(* integers by their own codes.                                            *)
StrOne == -11
StrZero == -10

Min(S) == CHOOSE x \in S : \A y \in S : x <= y

(***************************************************************************)
(* Python str primitives.                                                  *)
(***************************************************************************)
Drop(s, n) == SubSeq(s, n + 1, Len(s))

StartsWithAt(s, p, i) ==
    /\ i + Len(p) - 1 <= Len(s)
    /\ SubSeq(s, i, i + Len(p) - 1) = p

StartsWith(s, p) == StartsWithAt(s, p, 1)

EndsWith(s, p) ==
    /\ Len(p) <= Len(s)
    /\ SubSeq(s, Len(s) - Len(p) + 1, Len(s)) = p

Contains(s, sub) == \E i \in 1..Len(s) : StartsWithAt(s, sub, i)

(* index of the first occurrence of sep in s, or 0 *)
Find(s, sep) ==
    LET C == {i \in 1..Len(s) : StartsWithAt(s, sep, i)}
    IN  IF C = {} THEN 0 ELSE Min(C)

(* index of the leftmost position of s at which a pattern matches, or 0;   *)
(* MatchEnd(t) is positive when the pattern matches at the start of t      *)
FirstMatch(s, MatchEnd(_)) ==
    LET C == {i \in 1..Len(s) : MatchEnd(Drop(s, i - 1)) > 0}
    IN  IF C = {} THEN 0 ELSE Min(C)

(* str.replace(old, new): leftmost, non-overlapping *)
RECURSIVE Replace(_, _, _)
Replace(s, old, new) ==
    LET i == Find(s, old)
    IN  IF i = 0 THEN s
        ELSE SubSeq(s, 1, i - 1) \o new
               \o Replace(Drop(s, i + Len(old) - 1), old, new)

(* str.split(sep): a sequence of strings, empty parts kept *)
RECURSIVE Split(_, _)
Split(s, sep) ==
    LET i == Find(s, sep)
    IN  IF i = 0 THEN <<s>>
        ELSE <<SubSeq(s, 1, i - 1)>> \o Split(Drop(s, i + Len(sep) - 1), sep)

(* sep.join(lines) *)
RECURSIVE Join(_, _)
Join(lines, sep) ==
    IF lines = <<>> THEN <<>>
    ELSE IF Len(lines) = 1 THEN lines[1]
         ELSE lines[1] \o sep \o Join(Tail(lines), sep)

(* str.lstrip(chars): chars is a set of characters *)
RECURSIVE LStrip(_, _)
LStrip(s, chars) ==
    IF s # <<>> /\ Head(s) \in chars THEN LStrip(Tail(s), chars) ELSE s

Chars(s) == {s[i] : i \in 1..Len(s)}

NoNL(s) == \A k \in 1..Len(s) : s[k] # NL

Whitespace == {" ", NL, "\r", "\t"}

Digits == {"0", "1", "2", "3", "4", "5", "6", "7", "8", "9"}

(* len(text.split()): the number of whitespace-delimited tokens *)
CountTokens(s) ==
    Cardinality({i \in 1..Len(s) :
                   s[i] \notin Whitespace /\ (i = 1 \/ s[i - 1] \in Whitespace)})

(***************************************************************************)
(* Scene.sceneContent setter: word count and letter count.                 *)
(***************************************************************************)
(* length of the shortest match of \[.+?\] at the start of s, or 0 *)
TagEnd(s) ==
    IF s = <<>> \/ Head(s) # "[" THEN 0
    ELSE LET C == {j \in 3..Len(s) : s[j] = "]" /\ NoNL(SubSeq(s, 2, j - 1))}
         IN  IF C = {} THEN 0 ELSE Min(C)

(* re.sub('\[.+?\]', '', s) *)
RECURSIVE StripTags(_)
StripTags(s) ==
    LET i == FirstMatch(s, TagEnd)
    IN  IF i = 0 THEN s
        ELSE SubSeq(s, 1, i - 1)
               \o StripTags(Drop(s, i - 1 + TagEnd(Drop(s, i - 1))))

(* re.sub('\[.+?\]|\.|\,| -', '', s) *)
(* length of the match of \[.+?\]|\.|\,| - at the start of s, or 0 *)
MarkupOrPunctuationEnd(s) ==
    IF TagEnd(s) > 0 THEN TagEnd(s)
    ELSE IF s # <<>> /\ Head(s) \in {".", ","} THEN 1
    ELSE IF StartsWith(s, <<" ", "-">>) THEN 2
    ELSE 0

RECURSIVE StripMarkupAndPunctuation(_)
StripMarkupAndPunctuation(s) ==
    LET i == FirstMatch(s, MarkupOrPunctuationEnd)
    IN  IF i = 0 THEN s
        ELSE SubSeq(s, 1, i - 1)
               \o StripMarkupAndPunctuation(
                     Drop(s, i - 1 + MarkupOrPunctuationEnd(Drop(s, i - 1))))

WordCountOf(text) == CountTokens(StripMarkupAndPunctuation(text))

LetterCountOf(text) ==
    Len(SelectSeq(StripTags(text), LAMBDA c : c \notin {NL, "\r"}))

(* an assignment of the content that leaves the counts alone, for        *)
(* comparison                                                              *)
SetSceneContentOnly(sc, text) == [sc EXCEPT !.sceneContent = text]

(* scene with sceneContent := text, the counts derived from it *)
SetSceneContent(sc, text) ==
    [sc EXCEPT !.sceneContent = text,
               !.wordCount = WordCountOf(text),
               !.letterCount = LetterCountOf(text)]

(***************************************************************************)
(* MdFile markup conversion.                                               *)
(***************************************************************************)
(* re.sub('\[\/*[h|c|r|s|u]\d*\]', '', s): length of a match at the start  *)
RECURSIVE SkipWhile(_, _)
SkipWhile(s, chars) ==
    IF s # <<>> /\ Head(s) \in chars THEN 1 + SkipWhile(Tail(s), chars) ELSE 0

FormatTagEnd(s) ==
    IF s = <<>> \/ Head(s) # "[" THEN 0
    ELSE LET a == 1 + SkipWhile(Tail(s), {"/"})
         IN  IF a + 1 > Len(s) \/ s[a + 1] \notin {"h", "|", "c", "r", "s", "u"}
             THEN 0
             ELSE LET b == a + 1 + SkipWhile(Drop(s, a + 1), Digits)
                  IN  IF b + 1 <= Len(s) /\ s[b + 1] = "]" THEN b + 1 ELSE 0

RECURSIVE StripFormatTags(_)
StripFormatTags(s) ==
    LET i == FirstMatch(s, FormatTagEnd)
    IN  IF i = 0 THEN s
        ELSE SubSeq(s, 1, i - 1)
               \o StripFormatTags(Drop(s, i - 1 + FormatTagEnd(Drop(s, i - 1))))

RECURSIVE ReplaceList(_, _)
ReplaceList(s, reps) ==
    IF reps = <<>> THEN s
    ELSE ReplaceList(Replace(s, reps[1][1], reps[1][2]), Tail(reps))

MD_REPLACEMENTS_FROM_YW ==
    << << <<"[", "i", "]">>, <<"*">> >>,
       << <<"[", "/", "i", "]">>, <<"*">> >>,
       << <<"[", "b", "]">>, <<"*", "*">> >>,
       << <<"[", "/", "b", "]">>, <<"*", "*">> >>,
       << <<"/", "*">>, <<"<", "!", "-", "-", "-">> >>,
       << <<"*", "/">>, <<"-", "-", "-", ">">> >>,
       << <<" ", " ">>, <<" ">> >> >>

(* MdFile.convert_from_yw: None raises AttributeError inside the try and   *)
(* yields ''                                                               *)
MdConvertFromYw(text, markdownMode) ==
    IF text = NoneT THEN <<>>
    ELSE StripFormatTags(
           ReplaceList(text,
             (IF markdownMode THEN <<>> ELSE << <<<<NL>>, <<NL, NL>>>> >>)
               \o MD_REPLACEMENTS_FROM_YW))

(* index of the closing ** of the shortest match of \*\*(.+?)\*\* at the   *)
(* start of s, or 0                                                        *)
BoldEnd(s) ==
    IF ~StartsWith(s, <<"*", "*">>) THEN 0
    ELSE LET C == {j \in 4..(Len(s) - 1) :
                      /\ s[j] = "*" /\ s[j + 1] = "*"
                      /\ NoNL(SubSeq(s, 3, j - 1))}
         IN  IF C = {} THEN 0 ELSE Min(C)

RECURSIVE SubBold(_)
SubBold(s) ==
    LET i == FirstMatch(s, BoldEnd)
        t == Drop(s, i - 1)
    IN  IF i = 0 THEN s
        ELSE SubSeq(s, 1, i - 1)
               \o <<"[", "b", "]">> \o SubSeq(t, 3, BoldEnd(t) - 1)
               \o <<"[", "/", "b", "]">> \o SubBold(Drop(t, BoldEnd(t) + 1))

(* index of the closing * of the shortest match of \*([^ ].+?[^ ])\* at    *)
(* the start of s, or 0                                                    *)
ItalicEnd(s) ==
    IF s = <<>> \/ Head(s) # "*" THEN 0
    ELSE LET C == {j \in 5..Len(s) :
                      /\ s[j] = "*"
                      /\ s[2] # " " /\ s[j - 1] # " "
                      /\ NoNL(SubSeq(s, 3, j - 2))}
         IN  IF C = {} THEN 0 ELSE Min(C)

RECURSIVE SubItalic(_)
SubItalic(s) ==
    LET i == FirstMatch(s, ItalicEnd)
        t == Drop(s, i - 1)
    IN  IF i = 0 THEN s
        ELSE SubSeq(s, 1, i - 1)
               \o <<"[", "i", "]">> \o SubSeq(t, 2, ItalicEnd(t) - 1)
               \o <<"[", "/", "i", "]">> \o SubItalic(Drop(t, ItalicEnd(t)))

MD_REPLACEMENTS_TO_YW ==
    << << <<NL, NL>>, <<NL>> >>,
       << <<"<", "!", "-", "-", "-">>, <<"/", "*">> >>,
       << <<"-", "-", "-", ">">>, <<"*", "/">> >> >>

(* MdFile.convert_to_yw *)
MdConvertToYw(text, markdownMode) ==
    IF markdownMode THEN text
    ELSE ReplaceList(SubItalic(SubBold(text)), MD_REPLACEMENTS_TO_YW)

(***************************************************************************)
(* The document model: Novel, Chapter, Scene, WorldElement, Character.     *)
(* A Python dict is a record [keys, val]: keys is the insertion order the  *)
(* for-loops of the code iterate in, val the mapping.                      *)
(***************************************************************************)
EmptyDict == [keys |-> <<>>, val |-> <<>>]

Has(d, k) == k \in DOMAIN d.val

(* d[k] = v *)
Put(d, k, v) ==
    IF Has(d, k) THEN [d EXCEPT !.val[k] = v]
    ELSE [keys |-> Append(d.keys, k), val |-> d.val @@ (k :> v)]

InSeq(x, s) == \E i \in 1..Len(s) : s[i] = x

(* Chapter.__init__ *)
NewChapter ==
    [title |-> NoneT, desc |-> NoneT, chLevel |-> NoneI, oldType |-> NoneI,
     chType |-> NoneI, isUnused |-> NoneB, suppressChapterTitle |-> NoneB,
     isTrash |-> NoneB, suppressChapterBreak |-> NoneB, srtScenes |-> <<>>]

(* Scene.__init__ *)
NewScene ==
    [title |-> NoneT, desc |-> NoneT, sceneContent |-> NoneT,
     rtfFile |-> NoneT, wordCount |-> 0, letterCount |-> 0,
     isUnused |-> NoneB, isNotesScene |-> NoneB, isTodoScene |-> NoneB,
     doNotExport |-> NoneB, status |-> NoneI, sceneNotes |-> NoneT,
     tags |-> NoneT, field1 |-> NoneT, field2 |-> NoneT, field3 |-> NoneT,
     field4 |-> NoneT, appendToPrev |-> NoneB, isReactionScene |-> NoneB,
     isSubPlot |-> NoneB, goal |-> NoneT, conflict |-> NoneT,
     outcome |-> NoneT, characters |-> NoneT, locations |-> NoneT,
     items |-> NoneT, date |-> NoneT, time |-> NoneT, minute |-> NoneT,
     hour |-> NoneT, day |-> NoneT, lastsMinutes |-> NoneT,
     lastsHours |-> NoneT, lastsDays |-> NoneT]

(* WorldElement.__init__ *)
NewWorldElement ==
    [title |-> NoneT, image |-> NoneT, desc |-> NoneT, tags |-> NoneT,
     aka |-> NoneT]

(* Character.__init__ *)
NewCharacter ==
    [title |-> NoneT, image |-> NoneT, desc |-> NoneT, tags |-> NoneT,
     aka |-> NoneT, notes |-> NoneT, bio |-> NoneT, goals |-> NoneT,
     fullName |-> NoneT, isMajor |-> NoneB]

(* Novel.__init__ (tree is the attribute Yw7File.__init__ adds: "None" or  *)
(* "tree")                                                                 *)
NewNovel ==
    [title |-> NoneT, desc |-> NoneT, author |-> NoneT,
     fieldTitle1 |-> NoneT, fieldTitle2 |-> NoneT, fieldTitle3 |-> NoneT,
     fieldTitle4 |-> NoneT,
     chapters |-> EmptyDict, scenes |-> EmptyDict, srtChapters |-> <<>>,
     locations |-> EmptyDict, srtLocations |-> <<>>,
     items |-> EmptyDict, srtItems |-> <<>>,
     characters |-> EmptyDict, srtCharacters |-> <<>>,
     tree |-> "None"]

(* Scene.STATUS.index('Outline'), Scene.STATUS.index('Draft') *)
STATUS_OUTLINE == 1
STATUS_DRAFT == 2

(***************************************************************************)
(* MdFile.read: the line scanner.                                          *)
(***************************************************************************)
LOW_WORDCOUNT == 10

SCENE_DIVIDER == <<"*", " ", "*", " ", "*">>

(* str(n) for the chapter and scene counters *)
IdStr(n) == <<"1", "2", "3", "4", "5", "6", "7", "8", "9">>[n]

(* the local variables of read() at loop entry; exc is the exception that  *)
(* left the loop, "None" while there is none                               *)
ReaderStart(nv) ==
    [nv |-> nv, chCount |-> 0, scCount |-> 0, lines |-> <<>>,
     chId |-> "None", scId |-> "None", exc |-> "None"]

(* write_scene_content without its status classification, for comparison *)
WriteSceneContentUnclassified(nv, scId, lines) ==
    IF scId = "None" THEN nv
    ELSE [nv EXCEPT !.scenes.val[scId] =
            SetSceneContent(nv.scenes.val[scId], Join(lines, <<NL>>))]

(* write_scene_content(scId, lines) *)
WriteSceneContent(nv, scId, lines) ==
    IF scId = "None" THEN nv
    ELSE LET sc == SetSceneContent(nv.scenes.val[scId], Join(lines, <<NL>>))
         IN  [nv EXCEPT !.scenes.val[scId] =
                [sc EXCEPT !.status = IF sc.wordCount < LOW_WORDCOUNT
                                      THEN STATUS_OUTLINE ELSE STATUS_DRAFT]]

(* mdLine.startswith('#'): close the scene, add a chapter *)
MdHeading(st, mdLine) ==
    LET nv1 == WriteSceneContent(st.nv, st.scId, st.lines)
        chCount == st.chCount + 1
        chId == IdStr(chCount)
        nv2 == [nv1 EXCEPT !.chapters = Put(@, chId, NewChapter)]
        parts == Split(mdLine, <<"#", " ">>)
    IN  IF Len(parts) < 2
        THEN (* mdLine.split('# ')[1] raises IndexError *)
             [st EXCEPT !.nv = nv2, !.scId = "None", !.chCount = chCount,
                        !.chId = chId, !.exc = "IndexError"]
        ELSE [st EXCEPT
                !.nv = [nv2 EXCEPT
                          !.chapters.val[chId] =
                             [NewChapter EXCEPT
                                !.title = parts[2],
                                !.oldType = StrZero,
                                !.chLevel = IF StartsWith(mdLine, <<"#", " ">>)
                                            THEN 1 ELSE 0,
                                !.srtScenes = <<>>],
                          !.srtChapters = Append(@, chId)],
                !.scId = "None", !.chCount = chCount, !.chId = chId]

(* a divider branch that leaves the scene open, for comparison *)
MdDividerIgnored(st) == st

(* SCENE_DIVIDER in mdLine: close the scene *)
MdDivider(st) ==
    [st EXCEPT !.nv = WriteSceneContent(st.nv, st.scId, st.lines),
               !.scId = "None"]

(* a non-blank line inside a chapter while no scene is open: add a scene *)
MdOpenScene(st, mdLine, markdownMode, noSceneTitles) ==
    LET commentStart == IF markdownMode THEN <<"<", "!", "-", "-", "-">>
                        ELSE <<"/", "*">>
        commentEnd == IF markdownMode THEN <<"-", "-", "-", ">">>
                      ELSE <<"*", "/">>
        scCount == st.scCount + 1
        scId == IdStr(scCount)
        cut == Find(mdLine, commentEnd)
        titled == ~noSceneTitles /\ StartsWith(mdLine, commentStart) /\ cut > 0
        title == IF titled
                 THEN LStrip(SubSeq(mdLine, 1, cut - 1), Chars(commentStart))
                 ELSE <<"S", "c", "e", "n", "e", " ", IdStr(scCount)>>
        first == IF titled THEN Drop(mdLine, cut + Len(commentEnd) - 1)
                 ELSE mdLine
    IN  [st EXCEPT
           !.nv = [st.nv EXCEPT
                     !.scenes = Put(@, scId,
                                    [NewScene EXCEPT !.status = StrOne,
                                                     !.title = title]),
                     !.chapters.val[st.chId].srtScenes = Append(@, scId)],
           !.scCount = scCount, !.scId = scId, !.lines = <<first>>]

(* one pass of the for-loop body *)
MdStep(st, mdLine, markdownMode, noSceneTitles) ==
    IF StartsWith(mdLine, <<"#">>) THEN MdHeading(st, mdLine)
    ELSE IF Contains(mdLine, SCENE_DIVIDER) THEN MdDivider(st)
    ELSE IF st.scId # "None" THEN [st EXCEPT !.lines = Append(@, mdLine)]
    ELSE IF mdLine # <<>> /\ st.chId # "None"
         THEN MdOpenScene(st, mdLine, markdownMode, noSceneTitles)
    ELSE st

(* the for-loop: an exception leaves it at once *)
RECURSIVE MdScan(_, _, _, _)
MdScan(st, mdLines, markdownMode, noSceneTitles) ==
    IF mdLines = <<>> \/ st.exc # "None" THEN st
    ELSE MdScan(MdStep(st, Head(mdLines), markdownMode, noSceneTitles),
                Tail(mdLines), markdownMode, noSceneTitles)

(* what read() does after the loop: nothing but return 'SUCCESS' *)
MdAfterLoop(st) == st

(* mdLines = self.convert_to_yw(mdText).split('\n') *)
MdLinesOf(mdText, markdownMode) ==
    Split(MdConvertToYw(mdText, markdownMode), <<NL>>)

(***************************************************************************)
(* FileExport: the template-based exporter.  A template is a sequence of   *)
(* characters and placeholders ("${Title}", ...); the exporter's output is *)
(* a sequence of blocks [kind, id, num, text], kind naming the template    *)
(* the block was rendered with, and get_text joins their texts.            *)
(***************************************************************************)
IsTrue(flag) == flag = "True"

(* str(n), n >= 0 *)
RECURSIVE NumStr(_)
NumStr(n) ==
    IF n < 10 THEN <<<<"0", "1", "2", "3", "4", "5", "6", "7", "8", "9">>[n + 1]>>
    ELSE NumStr(n \div 10) \o NumStr(n % 10)

(* a mapping value as safe_substitute prints it: str(None) is 'None' *)
StrOf(v) == IF v = NoneT THEN <<"N", "o", "n", "e">> ELSE v

(* the number shown by a template: 0 is shown as '' *)
DispStr(n) == IF n = 0 THEN <<>> ELSE NumStr(n)

(* Template(template).safe_substitute(mapping) *)
RECURSIVE Render(_, _)
Render(template, mapping) ==
    IF template = <<>> THEN <<>>
    ELSE (IF Head(template) \in DOMAIN mapping THEN mapping[Head(template)]
          ELSE <<Head(template)>>) \o Render(Tail(template), mapping)

(* the class attributes of FileExport: every template is '' *)
FileExportTemplates ==
    [fileHeader |-> <<>>, partTemplate |-> <<>>, chapterTemplate |-> <<>>,
     notesChapterTemplate |-> <<>>, todoChapterTemplate |-> <<>>,
     unusedChapterTemplate |-> <<>>, notExportedChapterTemplate |-> <<>>,
     sceneTemplate |-> <<>>, firstSceneTemplate |-> <<>>,
     appendedSceneTemplate |-> <<>>, notesSceneTemplate |-> <<>>,
     todoSceneTemplate |-> <<>>, unusedSceneTemplate |-> <<>>,
     notExportedSceneTemplate |-> <<>>, sceneDivider |-> <<>>,
     chapterEndTemplate |-> <<>>, unusedChapterEndTemplate |-> <<>>,
     notExportedChapterEndTemplate |-> <<>>,
     notesChapterEndTemplate |-> <<>>, fileFooter |-> <<>>]

(* the class attributes of MdFile, and MdFile.__init__ removing the title  *)
(* comment from sceneTemplate when noSceneTitles is set                    *)
MdFileTemplates(noSceneTitles) ==
    [FileExportTemplates EXCEPT
       !.fileHeader = <<"*", "*", "${Title}", "*", "*", " ", " ", NL,
                        " ", " ", NL,
                        "*", "${AuthorName}", "*", " ", " ", NL,
                        " ", " ", NL>>,
       !.partTemplate = <<NL, "#", " ", "${Title}", NL, NL>>,
       !.chapterTemplate = <<NL, "#", "#", " ", "${Title}", NL, NL>>,
       !.sceneTemplate =
          (IF noSceneTitles THEN <<>>
           ELSE <<"<", "!", "-", "-", "-", "${Title}", "-", "-", "-", ">">>)
            \o <<"${SceneContent}", NL, NL>>,
       !.sceneDivider = <<NL, NL>> \o SCENE_DIVIDER \o <<NL, NL>>]

(* the class attributes of a subclass of MdFile that defines every        *)
(* template of FileExport: a letter that tells the template, and the       *)
(* numbers and totals the mapping offers                                   *)
MarkedTemplates ==
    LET scene(mark) == <<mark, "${SceneNumber}", ":", "${WordsTotal}", "/",
                         "${LettersTotal}", NL>>
        chapter(mark) == <<mark, "${ChapterNumber}", NL>>
    IN  [fileHeader |-> <<"H", NL>>, partTemplate |-> chapter("P"),
         chapterTemplate |-> chapter("C"),
         notesChapterTemplate |-> chapter("N"),
         todoChapterTemplate |-> chapter("T"),
         unusedChapterTemplate |-> chapter("U"),
         notExportedChapterTemplate |-> chapter("X"),
         sceneTemplate |-> scene("s"), firstSceneTemplate |-> scene("f"),
         appendedSceneTemplate |-> scene("a"),
         notesSceneTemplate |-> scene("n"), todoSceneTemplate |-> scene("t"),
         unusedSceneTemplate |-> scene("u"),
         notExportedSceneTemplate |-> scene("x"),
         sceneDivider |-> <<"-", NL>>, chapterEndTemplate |-> chapter("E"),
         unusedChapterEndTemplate |-> chapter("V"),
         notExportedChapterEndTemplate |-> chapter("Y"),
         notesChapterEndTemplate |-> chapter("M"), fileFooter |-> <<"F", NL>>]

(* the templates of an exporter: "MdFile", or "Marked" for the subclass *)
TemplatesOf(class, noSceneTitles) ==
    IF class = "MdFile" THEN MdFileTemplates(noSceneTitles)
    ELSE MarkedTemplates

(* FileExport.get_fileHeaderMapping *)
FileHeaderMapping(nv) ==
    [k \in {"${Title}", "${AuthorName}"} |->
       IF k = "${Title}" THEN StrOf(nv.title) ELSE StrOf(nv.author)]

(* MdFile.get_chapterMapping over FileExport.get_chapterMapping *)
ChapterMapping(nv, chId, chapterNumber) ==
    [k \in {"${Title}", "${ChapterNumber}"} |->
       IF k = "${ChapterNumber}" THEN DispStr(chapterNumber)
       ELSE IF IsTrue(nv.chapters.val[chId].suppressChapterTitle) THEN <<>>
       ELSE StrOf(nv.chapters.val[chId].title)]

(* FileExport.get_sceneMapping: the exception it raises, "None" if none *)
SceneMappingExc(nv, scId) ==
    LET sc == nv.scenes.val[scId]
    IN  IF sc.locations # NoneT
           /\ \E i \in 1..Len(sc.locations) : ~Has(nv.locations, sc.locations[i])
        THEN "KeyError"
        ELSE IF sc.items # NoneT
                /\ \E i \in 1..Len(sc.items) : ~Has(nv.items, sc.items[i])
        THEN "KeyError"
        ELSE IF sc.time = NoneT /\ sc.hour # NoneT /\ sc.minute = NoneT
        THEN "AttributeError"
        ELSE IF sc.status \in {NoneI, StrOne} THEN "TypeError"
        ELSE IF sc.status > 5 THEN "IndexError"
        ELSE "None"

(* FileExport.get_sceneMapping *)
SceneMapping(nv, scId, sceneNumber, wordsTotal, lettersTotal, markdownMode) ==
    LET sc == nv.scenes.val[scId]
    IN  [k \in {"${Title}", "${SceneContent}", "${SceneNumber}",
                "${WordCount}", "${LetterCount}", "${WordsTotal}",
                "${LettersTotal}"} |->
           CASE k = "${Title}" -> StrOf(sc.title)
             [] k = "${SceneContent}" ->
                  MdConvertFromYw(sc.sceneContent, markdownMode)
             [] k = "${SceneNumber}" -> DispStr(sceneNumber)
             [] k = "${WordCount}" -> NumStr(sc.wordCount)
             [] k = "${LetterCount}" -> NumStr(sc.letterCount)
             [] k = "${WordsTotal}" -> NumStr(wordsTotal)
             [] OTHER -> NumStr(lettersTotal)]

(* a classification that tries the do-not-export rule first, for          *)
(* comparison                                                              *)
SceneClassExcludedFirst(nv, chId, scId, doNotExport) ==
    LET sc == nv.scenes.val[scId]
        ch == nv.chapters.val[chId]
    IN  IF IsTrue(sc.doNotExport) \/ doNotExport
        THEN "notExportedSceneTemplate"
        ELSE IF IsTrue(sc.isTodoScene) THEN "todoSceneTemplate"
        ELSE IF IsTrue(sc.isNotesScene) THEN "notesSceneTemplate"
        ELSE IF IsTrue(sc.isUnused) \/ IsTrue(ch.isUnused)
             THEN "unusedSceneTemplate"
        ELSE IF ch.oldType = 1 THEN "notesSceneTemplate"
        ELSE "sceneTemplate"

(* the classification of a scene in get_scenes: the template it selects,   *)
(* by the first matching rule                                              *)
SceneClass(nv, chId, scId, doNotExport) ==
    LET sc == nv.scenes.val[scId]
        ch == nv.chapters.val[chId]
    IN  IF IsTrue(sc.isTodoScene) THEN "todoSceneTemplate"
        ELSE IF IsTrue(sc.isNotesScene) THEN "notesSceneTemplate"
        ELSE IF IsTrue(sc.isUnused) \/ IsTrue(ch.isUnused)
             THEN "unusedSceneTemplate"
        ELSE IF ch.oldType = 1 THEN "notesSceneTemplate"
        ELSE IF IsTrue(sc.doNotExport) \/ doNotExport
             THEN "notExportedSceneTemplate"
        ELSE "sceneTemplate"

(* a divider test that lets every scene but the first have one, for        *)
(* comparison                                                              *)
DividerComesFirstUnlessFirst(first, sc) == ~first

(* "if not (firstSceneInChapter or self.scenes[scId].appendToPrev)": the   *)
(* divider is put before the scene                                         *)
DividerComesFirst(first, sc) == ~(first \/ IsTrue(sc.appendToPrev))

(* one pass of the for-loop of get_scenes; acc holds lines, sceneNumber,   *)
(* wordsTotal, lettersTotal, firstSceneInChapter and the exception raised  *)
GetScenesStep(nv, tpl, markdownMode, chId, doNotExport, acc, scId) ==
    LET sc == nv.scenes.val[scId]
        class == SceneClass(nv, chId, scId, doNotExport)
        ordinary == class = "sceneTemplate"
        sceneNumber == acc.sceneNumber + (IF ordinary THEN 1 ELSE 0)
        wordsTotal == acc.wordsTotal + (IF ordinary THEN sc.wordCount ELSE 0)
        lettersTotal == acc.lettersTotal
                          + (IF ordinary THEN sc.letterCount ELSE 0)
        kind0 == IF ordinary /\ ~acc.first /\ IsTrue(sc.appendToPrev)
                    /\ tpl.appendedSceneTemplate # <<>>
                 THEN "appendedSceneTemplate" ELSE class
        kind == IF acc.first /\ tpl.firstSceneTemplate # <<>>
                THEN "firstSceneTemplate" ELSE kind0
        dispNumber == IF ordinary THEN sceneNumber ELSE 0
        divider == IF DividerComesFirst(acc.first, sc)
                   THEN <<[kind |-> "sceneDivider", id |-> scId, num |-> 0,
                           text |-> tpl.sceneDivider]>>
                   ELSE <<>>
        exc == SceneMappingExc(nv, scId)
    IN  IF ~ordinary /\ tpl[class] = <<>> THEN acc
        ELSE IF exc # "None"
        THEN [acc EXCEPT !.lines = @ \o divider, !.sceneNumber = sceneNumber,
                         !.wordsTotal = wordsTotal,
                         !.lettersTotal = lettersTotal, !.exc = exc]
        ELSE [lines |-> acc.lines \o divider \o
                  <<[kind |-> kind, id |-> scId, num |-> dispNumber,
                     text |-> Render(tpl[kind],
                                SceneMapping(nv, scId, dispNumber, wordsTotal,
                                             lettersTotal, markdownMode))]>>,
              sceneNumber |-> sceneNumber, wordsTotal |-> wordsTotal,
              lettersTotal |-> lettersTotal, first |-> FALSE, exc |-> "None"]

(* FileExport.get_scenes: the for-loop over the chapter's srtScenes *)
RECURSIVE GetScenesLoop(_, _, _, _, _, _, _)
GetScenesLoop(nv, tpl, markdownMode, chId, doNotExport, acc, ids) ==
    IF ids = <<>> \/ acc.exc # "None" THEN acc
    ELSE GetScenesLoop(nv, tpl, markdownMode, chId, doNotExport,
                       GetScenesStep(nv, tpl, markdownMode, chId, doNotExport,
                                     acc, Head(ids)),
                       Tail(ids))

GetScenes(nv, tpl, markdownMode, chId, sceneNumber, wordsTotal, lettersTotal,
          doNotExport) ==
    GetScenesLoop(nv, tpl, markdownMode, chId, doNotExport,
                  [lines |-> <<>>, sceneNumber |-> sceneNumber,
                   wordsTotal |-> wordsTotal, lettersTotal |-> lettersTotal,
                   first |-> TRUE, exc |-> "None"],
                  nv.chapters.val[chId].srtScenes)

(* the classification of a chapter in get_chapters: the template it        *)
(* selects, by the first matching rule                                     *)
ChapterClass(nv, tpl, chId, doNotExport) ==
    LET ch == nv.chapters.val[chId]
    IN  IF ch.chType = 2 THEN "todoChapterTemplate"
        ELSE IF ch.chType = 1 THEN "notesChapterTemplate"
        ELSE IF IsTrue(ch.isUnused) THEN "unusedChapterTemplate"
        ELSE IF ch.oldType = 1 THEN "notesChapterTemplate"
        ELSE IF doNotExport THEN "notExportedChapterTemplate"
        ELSE IF ch.chLevel = 1 /\ tpl.partTemplate # <<>> THEN "partTemplate"
        ELSE "chapterTemplate"

(* the chapter ending selected by the same classification; "None" when     *)
(* there is no ending to render                                            *)
ChapterEndClass(nv, tpl, chId, doNotExport) ==
    LET ch == nv.chapters.val[chId]
        pick(name) == IF tpl[name] # <<>> THEN name ELSE "None"
    IN  IF ch.chType = 2 THEN "AttributeError"
             (* FileExport defines no todoChapterEndTemplate *)
        ELSE IF ch.chType = 1 THEN pick("notesChapterEndTemplate")
        ELSE IF IsTrue(ch.isUnused) THEN pick("unusedChapterEndTemplate")
        ELSE IF ch.oldType = 1 THEN pick("notesChapterEndTemplate")
        ELSE IF doNotExport THEN pick("notExportedChapterEndTemplate")
        ELSE pick("chapterEndTemplate")

(* a test that finds no chapter excluded, for comparison *)
ChapterDoNotExportNever(nv, chId) == FALSE

(* "Has the chapter only scenes not to be exported?" *)
ChapterDoNotExport(nv, chId) ==
    LET ids == nv.chapters.val[chId].srtScenes
    IN  /\ Len(ids) > 0
        /\ \A i \in 1..Len(ids) : IsTrue(nv.scenes.val[ids[i]].doNotExport)

(* one pass of the for-loop of get_chapters *)
GetChaptersStep(nv, tpl, markdownMode, acc, chId) ==
    IF ~Has(nv.chapters, chId)
       \/ \E i \in 1..Len(nv.chapters.val[chId].srtScenes) :
             ~Has(nv.scenes, nv.chapters.val[chId].srtScenes[i])
    THEN [acc EXCEPT !.exc = "KeyError"]
    ELSE
    LET doNotExport == ChapterDoNotExport(nv, chId)
        class == ChapterClass(nv, tpl, chId, doNotExport)
        ordinary == class = "chapterTemplate"
        chapterNumber == acc.chapterNumber + (IF ordinary THEN 1 ELSE 0)
        dispNumber == IF ordinary THEN chapterNumber ELSE 0
        head == IF ordinary \/ tpl[class] # <<>>
                THEN <<[kind |-> class, id |-> chId, num |-> dispNumber,
                        text |-> Render(tpl[class],
                                   ChapterMapping(nv, chId, dispNumber))]>>
                ELSE <<>>
        sc == GetScenes(nv, tpl, markdownMode, chId, acc.sceneNumber,
                        acc.wordsTotal, acc.lettersTotal, doNotExport)
        endClass == ChapterEndClass(nv, tpl, chId, doNotExport)
        ending == IF endClass \in {"None", "AttributeError"} THEN <<>>
                  ELSE <<[kind |-> endClass, id |-> chId, num |-> dispNumber,
                          text |-> Render(tpl[endClass],
                                     ChapterMapping(nv, chId, dispNumber))]>>
    IN  [lines |-> acc.lines \o head \o sc.lines \o ending,
         chapterNumber |-> chapterNumber, sceneNumber |-> sc.sceneNumber,
         wordsTotal |-> sc.wordsTotal, lettersTotal |-> sc.lettersTotal,
         exc |-> IF sc.exc # "None" THEN sc.exc
                 ELSE IF endClass = "AttributeError" THEN endClass
                 ELSE "None"]

(* FileExport.get_chapters: the for-loop over srtChapters *)
RECURSIVE GetChaptersLoop(_, _, _, _, _)
GetChaptersLoop(nv, tpl, markdownMode, acc, ids) ==
    IF ids = <<>> \/ acc.exc # "None" THEN acc
    ELSE GetChaptersLoop(nv, tpl, markdownMode,
                         GetChaptersStep(nv, tpl, markdownMode, acc, Head(ids)),
                         Tail(ids))

(* the locals of get_chapters before its loop *)
NoExport ==
    [lines |-> <<>>, chapterNumber |-> 0, sceneNumber |-> 0,
     wordsTotal |-> 0, lettersTotal |-> 0, exc |-> "None"]

GetChapters(nv, tpl, markdownMode) ==
    GetChaptersLoop(nv, tpl, markdownMode, NoExport, nv.srtChapters)

RECURSIVE JoinBlocks(_)
JoinBlocks(blocks) ==
    IF blocks = <<>> THEN <<>> ELSE Head(blocks).text \o JoinBlocks(Tail(blocks))

(* FileExport.get_text: header, chapters, (characters, locations and items *)
(* render through empty templates), footer.  [text, exc]                   *)
GetText(nv, tpl, markdownMode) ==
    LET chapters == GetChapters(nv, tpl, markdownMode)
        dangling(srt, dict) == \E i \in 1..Len(srt) : ~Has(dict, srt[i])
    IN  [text |-> Render(tpl.fileHeader, FileHeaderMapping(nv))
                    \o JoinBlocks(chapters.lines) \o tpl.fileFooter,
         exc |-> IF chapters.exc # "None" THEN chapters.exc
                 ELSE IF \/ dangling(nv.srtCharacters, nv.characters)
                         \/ dangling(nv.srtLocations, nv.locations)
                         \/ dangling(nv.srtItems, nv.items)
                 THEN "KeyError"
                 ELSE "None"]

(***************************************************************************)
(* Messages: a message is [tag, text]; tag is what startswith('SUCCESS')   *)
(* and startswith('ERROR') test.  A Python exception leaving a method is   *)
(* the tag "RAISE", its text the exception's class.                        *)
(***************************************************************************)
Msg(tag, text) == [tag |-> tag, text |-> text]

IsSuccess(message) == message.tag = "SUCCESS"

(* a test that takes no message for an error, for comparison *)
IsErrorNever(message) == FALSE

(* message.startswith('ERROR') *)
IsError(message) == message.tag = "ERROR"

Raised(exc) == Msg("RAISE", exc)

NoMsg == Msg("None", "")

MSG_LOCKED == Msg("ERROR", "yWriter seems to be open. Please close first.")

MSG_MISMATCH == Msg("ERROR", "Project structure mismatch.")

(***************************************************************************)
(* Yw7File.read.  The xml tree is opaque: a project file is the Novel its  *)
(* tree decodes to (file.model), or a file ET.parse cannot process         *)
(* (file.wellFormed = FALSE).  A scene of file.model holds what the        *)
(* elements of its subtree say, WordCount and LetterCount included.        *)
(***************************************************************************)
(* self.<registry>[id] = <entity read> for every entity of the file *)
RECURSIVE PutAll(_, _)
PutAll(d, from) ==
    IF from.keys = <<>> THEN d
    ELSE PutAll(Put(d, Head(from.keys), from.val[Head(from.keys)]),
                [keys |-> Tail(from.keys), val |-> from.val])

Present(new, old) == IF new # NoneT THEN new ELSE old

(* "Make sure that ToDo, Notes, and Unused type is inherited from the      *)
(* chapter": the body of "for scId in self.chapters[chId].srtScenes";      *)
(* acc is [nv, exc]                                                        *)
InheritStep(acc, chId, scId) ==
    LET ch == acc.nv.chapters.val[chId]
    IN  IF ~Has(acc.nv.scenes, scId) THEN [acc EXCEPT !.exc = "KeyError"]
        ELSE [acc EXCEPT !.nv.scenes.val[scId] =
                IF ch.chType = 2
                THEN [@ EXCEPT !.isTodoScene = "True", !.isUnused = "True"]
                ELSE IF ch.chType = 1
                THEN [@ EXCEPT !.isNotesScene = "True", !.isUnused = "True"]
                ELSE [@ EXCEPT !.isUnused = "True"]]

RECURSIVE InheritScenes(_, _, _)
InheritScenes(acc, chId, ids) ==
    IF ids = <<>> \/ acc.exc # "None" THEN acc
    ELSE InheritScenes(InheritStep(acc, chId, Head(ids)), chId, Tail(ids))

(* "for chId in self.chapters" *)
RECURSIVE InheritChapterType(_, _)
InheritChapterType(acc, chIds) ==
    IF chIds = <<>> \/ acc.exc # "None" THEN acc
    ELSE LET ch == acc.nv.chapters.val[Head(chIds)]
         IN  InheritChapterType(
                IF ch.chType \in {1, 2} \/ IsTrue(ch.isUnused)
                THEN InheritScenes(acc, Head(chIds), ch.srtScenes)
                ELSE acc,
                Tail(chIds))

(* a scene as read() takes it from its subtree: WordCount and LetterCount *)
(* as written there, then the SceneContent, if it has a text, through the  *)
(* setter                                                                  *)
ReadScene(sc) ==
    IF sc.sceneContent # NoneT THEN SetSceneContent(sc, sc.sceneContent)
    ELSE sc

(* Yw7File.read: [self, message] *)
YwRead(self, file, locked) ==
    IF locked THEN [self |-> self, message |-> MSG_LOCKED]
    ELSE IF ~file.wellFormed
    THEN [self |-> self, message |-> Msg("ERROR", "Can not process")]
    ELSE
    LET m == file.model
        loaded ==
          [self EXCEPT
             !.tree = "tree",
             !.srtLocations = @ \o m.srtLocations,
             !.locations = PutAll(@, m.locations),
             !.srtItems = @ \o m.srtItems,
             !.items = PutAll(@, m.items),
             !.srtCharacters = @ \o m.srtCharacters,
             !.characters = PutAll(@, m.characters),
             !.title = Present(m.title, @),
             !.author = Present(m.author, @),
             !.desc = Present(m.desc, @),
             !.fieldTitle1 = Present(m.fieldTitle1, @),
             !.fieldTitle2 = Present(m.fieldTitle2, @),
             !.fieldTitle3 = Present(m.fieldTitle3, @),
             !.fieldTitle4 = Present(m.fieldTitle4, @),
             !.chapters = PutAll(@, m.chapters),
             !.srtChapters = @ \o m.srtChapters,
             !.scenes =
                PutAll(@, [keys |-> m.scenes.keys,
                           val |-> [id \in DOMAIN m.scenes.val |->
                                      ReadScene(m.scenes.val[id])]])]
        r == InheritChapterType([nv |-> loaded, exc |-> "None"],
                                loaded.chapters.keys)
    IN  [self |-> r.nv,
         message |-> IF r.exc # "None" THEN Raised(r.exc)
                     ELSE Msg("SUCCESS", "Scenes read")]

(***************************************************************************)
(* Yw7File.merge.                                                          *)
(***************************************************************************)
(* "if source.x:" - neither None nor '' *)
Truthy(text) == text # NoneT /\ text # <<>>

(* the rule of the other text attributes applied to a title: '' replaces  *)
(* the prior title                                                         *)
MergeTitleIfNotNone(sourceValue, priorValue) ==
    IF sourceValue # NoneT THEN sourceValue ELSE priorValue

(* if source.title: self.title = source.title   (else: the prior value) *)
MergeTitle(sourceValue, priorValue) ==
    IF Truthy(sourceValue) THEN sourceValue ELSE priorValue

(* an unconditional assignment self.x = source.x, for comparison *)
MergeValueAssign(sourceValue, priorValue, none) == sourceValue

(* if source.x is not None: self.x = source.x   (else: the prior value) *)
MergeValue(sourceValue, priorValue, none) ==
    IF sourceValue # none THEN sourceValue ELSE priorValue

(* the body of "for lcId in source.srtLocations"; acc is [new, temp, exc]: *)
(* the dictionary being built, the prior one, the exception raised.  The   *)
(* else-branch of the image test assigns desc, so a location's image is    *)
(* the source's or None.                                                   *)
MergeLocationStep(acc, source, lcId) ==
    LET new == Put(acc.new, lcId, NewWorldElement)
        temp == IF Has(acc.temp, lcId) THEN acc.temp
                ELSE Put(acc.temp, lcId, NewWorldElement)
    IN  IF ~Has(source.locations, lcId)
        THEN [new |-> new, temp |-> temp, exc |-> "KeyError"]
        ELSE LET s == source.locations.val[lcId]
                 t == temp.val[lcId]
             IN  [new |-> Put(new, lcId,
                     [title |-> MergeTitle(s.title, t.title),
                      image |-> MergeValue(s.image, NoneT, NoneT),
                      desc |-> MergeValue(s.desc, t.desc, NoneT),
                      aka |-> MergeValue(s.aka, t.aka, NoneT),
                      tags |-> MergeValue(s.tags, t.tags, NoneT)]),
                  temp |-> temp, exc |-> "None"]

(* the body of "for itId in source.srtItems" *)
MergeItemStep(acc, source, itId) ==
    LET new == Put(acc.new, itId, NewWorldElement)
        temp == IF Has(acc.temp, itId) THEN acc.temp
                ELSE Put(acc.temp, itId, NewWorldElement)
    IN  IF ~Has(source.items, itId)
        THEN [new |-> new, temp |-> temp, exc |-> "KeyError"]
        ELSE LET s == source.items.val[itId]
                 t == temp.val[itId]
             IN  [new |-> Put(new, itId,
                     [title |-> MergeTitle(s.title, t.title),
                      image |-> MergeValue(s.image, t.image, NoneT),
                      desc |-> MergeValue(s.desc, t.desc, NoneT),
                      aka |-> MergeValue(s.aka, t.aka, NoneT),
                      tags |-> MergeValue(s.tags, t.tags, NoneT)]),
                  temp |-> temp, exc |-> "None"]

(* the body of "for crId in source.srtCharacters" *)
MergeCharacterStep(acc, source, crId) ==
    LET new == Put(acc.new, crId, NewCharacter)
        temp == IF Has(acc.temp, crId) THEN acc.temp
                ELSE Put(acc.temp, crId, NewCharacter)
    IN  IF ~Has(source.characters, crId)
        THEN [new |-> new, temp |-> temp, exc |-> "KeyError"]
        ELSE LET s == source.characters.val[crId]
                 t == temp.val[crId]
             IN  [new |-> Put(new, crId,
                     [title |-> MergeTitle(s.title, t.title),
                      image |-> MergeValue(s.image, t.image, NoneT),
                      desc |-> MergeValue(s.desc, t.desc, NoneT),
                      aka |-> MergeValue(s.aka, t.aka, NoneT),
                      tags |-> MergeValue(s.tags, t.tags, NoneT),
                      notes |-> MergeValue(s.notes, t.notes, NoneT),
                      bio |-> MergeValue(s.bio, t.bio, NoneT),
                      goals |-> MergeValue(s.goals, t.goals, NoneT),
                      fullName |-> MergeValue(s.fullName, t.fullName, NoneT),
                      isMajor |-> MergeValue(s.isMajor, t.isMajor, NoneB)]),
                  temp |-> temp, exc |-> "None"]

RECURSIVE MergeWorldLoop(_, _, _, _)
MergeWorldLoop(Step(_, _, _), acc, source, ids) ==
    IF ids = <<>> \/ acc.exc # "None" THEN acc
    ELSE MergeWorldLoop(Step, Step(acc, source, Head(ids)), source, Tail(ids))

(* "Merge and re-order locations", items, characters; m is [self, exc,     *)
(* mismatchCount, scenesAssigned]                                          *)
(* the locations merged without the test of the source's ordering, for    *)
(* comparison                                                              *)
MergeLocationsUnguarded(m, source) ==
    LET r == MergeWorldLoop(MergeLocationStep,
                [new |-> EmptyDict, temp |-> m.self.locations,
                 exc |-> "None"],
                source, source.srtLocations)
    IN  [m EXCEPT !.self.srtLocations = source.srtLocations,
                  !.self.locations = r.new, !.exc = r.exc]

MergeLocations(m, source) ==
    IF source.srtLocations = <<>> THEN m
    ELSE LET r == MergeWorldLoop(MergeLocationStep,
                     [new |-> EmptyDict, temp |-> m.self.locations,
                      exc |-> "None"],
                     source, source.srtLocations)
         IN  [m EXCEPT !.self.srtLocations = source.srtLocations,
                       !.self.locations = r.new, !.exc = r.exc]

MergeItems(m, source) ==
    IF source.srtItems = <<>> THEN m
    ELSE LET r == MergeWorldLoop(MergeItemStep,
                     [new |-> EmptyDict, temp |-> m.self.items,
                      exc |-> "None"],
                     source, source.srtItems)
         IN  [m EXCEPT !.self.srtItems = source.srtItems,
                       !.self.items = r.new, !.exc = r.exc]

MergeCharacters(m, source) ==
    IF source.srtCharacters = <<>> THEN m
    ELSE LET r == MergeWorldLoop(MergeCharacterStep,
                     [new |-> EmptyDict, temp |-> m.self.characters,
                      exc |-> "None"],
                     source, source.srtCharacters)
         IN  [m EXCEPT !.self.srtCharacters = source.srtCharacters,
                       !.self.characters = r.new, !.exc = r.exc]

(* the scene attributes merge copies with "is not None", by type *)
SceneTextFields ==
    {"desc", "sceneNotes", "tags", "field1", "field2", "field3", "field4",
     "date", "time", "minute", "hour", "day", "lastsMinutes", "lastsHours",
     "lastsDays", "goal", "conflict", "outcome"}

SceneFlagFields ==
    {"isUnused", "isNotesScene", "isTodoScene", "appendToPrev",
     "isReactionScene", "isSubPlot"}

(* the ids of list kept "if id in registry" *)
FilterIds(list, registry) == SelectSeq(list, LAMBDA id : Has(registry, id))

(* the body of "for scId in source.scenes" *)
MergeSceneStep(m, source, scId) ==
    LET isNew == ~Has(m.self.scenes, scId)
        t == IF isNew THEN NewScene ELSE m.self.scenes.val[scId]
        s == source.scenes.val[scId]
        t1 == [f \in DOMAIN t |->
                 IF f = "title" THEN MergeTitle(s.title, t.title)
                 ELSE IF f \in SceneTextFields THEN MergeValue(s[f], t[f], NoneT)
                 ELSE IF f \in SceneFlagFields THEN MergeValue(s[f], t[f], NoneB)
                 ELSE IF f = "status" THEN MergeValue(s.status, t.status, NoneI)
                 ELSE t[f]]
        t2 == IF s.sceneContent # NoneT THEN SetSceneContent(t1, s.sceneContent)
              ELSE t1
        t3 == [t2 EXCEPT
                 !.characters = IF s.characters # NoneT
                                THEN FilterIds(s.characters, m.self.characters)
                                ELSE @,
                 !.locations = IF s.locations # NoneT
                               THEN FilterIds(s.locations, m.self.locations)
                               ELSE @,
                 !.items = IF s.items # NoneT THEN <<>> ELSE @]
        (* self.scenes[scId].append(itId): a Scene has no append *)
        exc == IF s.items # NoneT /\ FilterIds(s.items, m.self.items) # <<>>
               THEN "AttributeError" ELSE "None"
    IN  [m EXCEPT !.self.scenes = Put(@, scId, t3),
                  !.mismatchCount = @ + (IF isNew THEN 1 ELSE 0),
                  !.exc = exc]

(* the body of "for chId in source.chapters" *)
MergeChapterStep(m, source, chId) ==
    LET isNew == ~Has(m.self.chapters, chId)
        t == IF isNew THEN NewChapter ELSE m.self.chapters.val[chId]
        s == source.chapters.val[chId]
        RECURSIVE Claim(_, _, _)
        (* [srtScenes, scenesAssigned] after the inner for-loop *)
        Claim(ids, kept, assigned) ==
            IF ids = <<>> THEN [srtScenes |-> kept, scenesAssigned |-> assigned]
            ELSE IF Has(m.self.scenes, Head(ids)) /\ ~InSeq(Head(ids), assigned)
                 THEN Claim(Tail(ids), Append(kept, Head(ids)),
                            Append(assigned, Head(ids)))
                 ELSE Claim(Tail(ids), kept, assigned)
        c == IF s.srtScenes # NoneT THEN Claim(s.srtScenes, <<>>, m.scenesAssigned)
             ELSE [srtScenes |-> t.srtScenes, scenesAssigned |-> m.scenesAssigned]
    IN  [m EXCEPT
           !.self.chapters = Put(@, chId,
              [title |-> MergeTitle(s.title, t.title),
               desc |-> MergeValue(s.desc, t.desc, NoneT),
               chLevel |-> MergeValue(s.chLevel, t.chLevel, NoneI),
               oldType |-> MergeValue(s.oldType, t.oldType, NoneI),
               chType |-> MergeValue(s.chType, t.chType, NoneI),
               isUnused |-> MergeValue(s.isUnused, t.isUnused, NoneB),
               suppressChapterTitle |->
                  MergeValue(s.suppressChapterTitle, t.suppressChapterTitle, NoneB),
               suppressChapterBreak |->
                  MergeValue(s.suppressChapterBreak, t.suppressChapterBreak, NoneB),
               isTrash |-> MergeValue(s.isTrash, t.isTrash, NoneB),
               srtScenes |-> c.srtScenes]),
           !.mismatchCount = @ + (IF isNew THEN 1 ELSE 0),
           !.scenesAssigned = c.scenesAssigned]

RECURSIVE MergeLoop(_, _, _, _)
MergeLoop(Step(_, _, _), m, source, ids) ==
    IF ids = <<>> \/ m.exc # "None" THEN m
    ELSE MergeLoop(Step, Step(m, source, Head(ids)), source, Tail(ids))

(* "Merge scenes" *)
MergeScenes(m, source) ==
    MergeLoop(MergeSceneStep, m, source, source.scenes.keys)

(* "Merge chapters" *)
MergeChapters(m, source) ==
    MergeLoop(MergeChapterStep, m, source, source.chapters.keys)

(* "Merge project attributes", and the chapter order *)
MergeProjectAttributes(m, source) ==
    [m EXCEPT
       !.self.title = MergeTitle(source.title, @),
       !.self.desc = MergeValue(source.desc, @, NoneT),
       !.self.author = MergeValue(source.author, @, NoneT),
       !.self.fieldTitle1 = MergeValue(source.fieldTitle1, @, NoneT),
       !.self.fieldTitle2 = MergeValue(source.fieldTitle2, @, NoneT),
       !.self.fieldTitle3 = MergeValue(source.fieldTitle3, @, NoneT),
       !.self.fieldTitle4 = MergeValue(source.fieldTitle4, @, NoneT),
       !.self.srtChapters = IF @ = <<>> THEN source.srtChapters ELSE @]

(* the stages of merge after the target's own file is read; a stage is     *)
(* skipped once an exception is under way                                  *)
MergeStages(self, source) ==
    LET Then(Stage(_, _), m) == IF m.exc # "None" THEN m ELSE Stage(m, source)
        m0 == [self |-> self, exc |-> "None", mismatchCount |-> 0,
               scenesAssigned |-> <<>>]
    IN  Then(MergeProjectAttributes,
          Then(MergeChapters,
            Then(MergeScenes,
              Then(MergeCharacters,
                Then(MergeItems,
                  Then(MergeLocations, m0))))))

(* Yw7File.merge: [self, message, loaded]; loaded is self as the merge     *)
(* found it, after "initialize data"                                       *)
YwMerge(self, source, fileExists, file, locked) ==
    LET r == IF fileExists THEN YwRead(self, file, locked)
             ELSE [self |-> self, message |-> NoMsg]
        m == MergeStages(r.self, source)
    IN  IF fileExists /\ ~IsSuccess(r.message)
        THEN [self |-> r.self, message |-> r.message, loaded |-> r.self]
        ELSE [self |-> m.self,
              message |-> IF m.exc # "None" THEN Raised(m.exc)
                          ELSE IF m.self.tree # "None" /\ m.mismatchCount # 0
                               THEN MSG_MISMATCH
                               ELSE Msg("SUCCESS", ""),
              loaded |-> r.self]

(***************************************************************************)
(* Yw7File.write.  A file is [exists, wellFormed, writable, model,         *)
(* elements, decodable, text].  Of a project file, model is the project    *)
(* its tree decodes to and elements the optional sub-elements its scenes   *)
(* have in the tree, as pairs of a scene id and "Fields", "characters",    *)
(* "locations" or "items"; the tree a Yw7File holds after read() is the    *)
(* tree of its file.  Of a document, text is its characters (.md) or the   *)
(* parser's events (.html), decodable whether its bytes decode.            *)
(***************************************************************************)
NoFile ==
    [exists |-> FALSE, wellFormed |-> FALSE, writable |-> TRUE,
     model |-> NewNovel, elements |-> {}, decodable |-> TRUE, text |-> <<>>]

ProjectFile(model, elements) ==
    [NoFile EXCEPT !.exists = TRUE, !.wellFormed = TRUE, !.model = model,
                   !.elements = elements]

(* the registry entries the tree builder writes: those of the sort list *)
Listed(registry, srt) == PutAll(EmptyDict, [keys |-> srt, val |-> registry.val])

Dangling(srt, registry) == \E i \in 1..Len(srt) : ~Has(registry, srt[i])

(* build_scene_subtree raises AttributeError where it looks up a           *)
(* sub-element the scene's tree does not have: 'Fields' for a Notes or     *)
(* ToDo scene, 'Characters', 'Locations', 'Items' for a scene with such a  *)
(* list                                                                    *)
SceneSubtreeRaises(sc, scId, elements) ==
    \/ /\ IsTrue(sc.isNotesScene) \/ IsTrue(sc.isTodoScene)
       /\ <<scId, "Fields">> \notin elements
    \/ \E f \in {"characters", "locations", "items"} :
          sc[f] # NoneT /\ <<scId, f>> \notin elements

(* Yw7TreeBuilder.build_element_tree: the exception it raises *)
BuildTreeExc(self, file) ==
    LET elements == IF self.tree = "tree" THEN file.elements ELSE {}
    IN  IF \/ Dangling(self.srtLocations, self.locations)
           \/ Dangling(self.srtItems, self.items)
           \/ Dangling(self.srtCharacters, self.characters)
        THEN "KeyError"
        ELSE IF \E scId \in DOMAIN self.scenes.val :
                   SceneSubtreeRaises(self.scenes.val[scId], scId, elements)
        THEN "AttributeError"
        ELSE IF Dangling(self.srtChapters, self.chapters) THEN "KeyError"
        ELSE "None"

(* the project the built tree holds: the entities of the sort lists; how   *)
(* the tree encodes their attributes is left to the tree builder           *)
TreeModel(self) ==
    [self EXCEPT !.tree = "None",
                 !.locations = Listed(@, self.srtLocations),
                 !.items = Listed(@, self.srtItems),
                 !.characters = Listed(@, self.srtCharacters),
                 !.chapters = Listed(@, self.srtChapters)]

(* Yw7File.write: [self, file, message] *)
YwWrite(self, file, locked) ==
    IF locked THEN [self |-> self, file |-> file, message |-> MSG_LOCKED]
    ELSE IF BuildTreeExc(self, file) # "None"
    THEN [self |-> self, file |-> file,
          message |-> Raised(BuildTreeExc(self, file))]
    ELSE IF file.exists /\ ~file.writable
    THEN [self |-> [self EXCEPT !.tree = "tree"], file |-> file,
          message |-> Msg("ERROR", "is write protected.")]
    ELSE [self |-> [self EXCEPT !.tree = "tree"],
          file |-> ProjectFile(
                      TreeModel(self),
                      IF self.tree = "tree"
                      THEN {e \in file.elements : Has(self.scenes, e[1])}
                      ELSE {}),
          message |-> Msg("SUCCESS", "written.")]

(***************************************************************************)
(* HtmlImport and HtmlOutline.  The markup is taken as HTMLParser hands it *)
(* to the handlers: a sequence of events [type, name, attrs], type "start" *)
(* or "end" with the tag in name, or "data" with the text in name; attrs   *)
(* is a sequence of <<name, value>>.                                       *)
(***************************************************************************)
(* str.strip(), written data.lstrip().rstrip() in the code *)
Strip(s) ==
    LET keep == {i \in 1..Len(s) : s[i] \notin Whitespace}
    IN  IF keep = {} THEN <<>>
        ELSE SubSeq(s, Min(keep), CHOOSE i \in keep : \A j \in keep : j <= i)

(* str.lower(), for the letters the attribute values here are made of *)
Lower(s) ==
    LET upper == <<"A", "D", "O", "U", "T", "H", "R">>
        lower == <<"a", "d", "o", "u", "t", "h", "r">>
    IN  [i \in 1..Len(s) |->
           IF \E k \in 1..Len(upper) : upper[k] = s[i]
           THEN lower[CHOOSE k \in 1..Len(upper) : upper[k] = s[i]]
           ELSE s[i]]

(* handle_starttag of either class; st is [nv, chCount, scCount, lines,    *)
(* chId, scId, exc]                                                        *)
HtmlStartTag(class, st, tag, attrs) ==
    IF tag \in {"h1", "h2"}
    THEN LET chId == IdStr(st.chCount + 1)
         IN  [st EXCEPT
                !.scId = "None", !.lines = <<>>, !.chCount = @ + 1,
                !.chId = chId,
                !.nv.chapters =
                   Put(@, chId, [NewChapter EXCEPT
                                   !.oldType = StrZero,
                                   !.chLevel = IF tag = "h1" THEN 1 ELSE 0]),
                !.nv.srtChapters = Append(@, chId)]
    ELSE IF class = "HtmlImport" /\ tag = "p"
    THEN IF st.scId = "None" /\ st.chId # "None"
         THEN LET scId == IdStr(st.scCount + 1)
              IN  [st EXCEPT
                     !.lines = <<>>, !.scCount = @ + 1, !.scId = scId,
                     !.nv.scenes =
                        Put(@, scId,
                            [NewScene EXCEPT
                               !.status = StrOne,
                               !.title = <<"S", "c", "e", "n", "e", " ">>
                                            \o scId]),
                     !.nv.chapters.val[st.chId].srtScenes = Append(@, scId)]
         ELSE st
    ELSE IF class = "HtmlOutline" /\ tag = "h3"
    THEN IF st.chId = "None"
         THEN [st EXCEPT !.lines = <<>>, !.scCount = @ + 1,
                         !.scId = IdStr(st.scCount + 1),
                         !.nv.scenes = Put(@, IdStr(st.scCount + 1), NewScene),
                         !.exc = "KeyError"]
         ELSE LET scId == IdStr(st.scCount + 1)
              IN  [st EXCEPT
                     !.lines = <<>>, !.scCount = @ + 1, !.scId = scId,
                     !.nv.scenes =
                        Put(@, scId,
                            [SetSceneContent(NewScene, <<>>) EXCEPT
                               !.status = STATUS_OUTLINE]),
                     !.nv.chapters.val[st.chId].srtScenes = Append(@, scId)]
    ELSE IF tag = "div" THEN [st EXCEPT !.scId = "None", !.chId = "None"]
    ELSE IF tag = "meta"
    THEN IF attrs = <<>> THEN [st EXCEPT !.exc = "IndexError"]
         ELSE IF attrs[1][2] = NoneT THEN [st EXCEPT !.exc = "AttributeError"]
         ELSE LET key == Lower(attrs[1][2])
                  isAuthor == key = <<"a", "u", "t", "h", "o", "r">>
                  isDesc == key = <<"d", "e", "s", "c", "r", "i", "p", "t",
                                    "i", "o", "n">>
              IN  IF (isAuthor \/ isDesc) /\ Len(attrs) < 2
                  THEN [st EXCEPT !.exc = "IndexError"]
                  ELSE IF isAuthor THEN [st EXCEPT !.nv.author = attrs[2][2]]
                  ELSE IF isDesc THEN [st EXCEPT !.nv.desc = attrs[2][2]]
                  ELSE st
    ELSE IF tag = "title" THEN [st EXCEPT !.lines = <<>>]
    ELSE st

(* ''.join(self._lines) *)
Concat(lines) == Join(lines, <<>>)

(* handle_endtag of either class *)
HtmlEndTag(class, st, tag) ==
    IF tag = "p"
    THEN LET lines == Append(st.lines, <<NL>>)
             text == Concat(lines)
         IN  IF class = "HtmlImport"
             THEN IF st.scId = "None" THEN [st EXCEPT !.lines = lines]
                  ELSE LET sc == SetSceneContent(st.nv.scenes.val[st.scId], text)
                       IN  [st EXCEPT
                              !.lines = lines,
                              !.nv.scenes.val[st.scId] =
                                 [sc EXCEPT
                                    !.status = IF sc.wordCount < LOW_WORDCOUNT
                                               THEN STATUS_OUTLINE
                                               ELSE STATUS_DRAFT]]
             ELSE IF st.scId # "None"
             THEN [st EXCEPT !.lines = lines,
                             !.nv.scenes.val[st.scId].desc = text]
             ELSE IF st.chId # "None"
             THEN [st EXCEPT !.lines = lines,
                             !.nv.chapters.val[st.chId].desc = text]
             ELSE [st EXCEPT !.lines = lines]
    ELSE IF tag \in {"h1", "h2"}
    THEN IF st.chId = "None" THEN [st EXCEPT !.exc = "KeyError"]
         ELSE [st EXCEPT !.nv.chapters.val[st.chId].title = Concat(st.lines),
                         !.lines = <<>>]
    ELSE IF class = "HtmlOutline" /\ tag = "h3"
    THEN IF st.scId = "None" THEN [st EXCEPT !.exc = "KeyError"]
         ELSE [st EXCEPT !.nv.scenes.val[st.scId].title = Concat(st.lines),
                         !.lines = <<>>]
    ELSE IF tag = "title" THEN [st EXCEPT !.nv.title = Concat(st.lines)]
    ELSE st

(* handle_data without the scene divider: every fragment is collected *)
HtmlDataKeepsDivider(class, st, data) ==
    [st EXCEPT !.lines = Append(@, Strip(data))]

(* handle_data of either class *)
HtmlData(class, st, data) ==
    LET COMMENT_START == <<"/", "*">>
        COMMENT_END == <<"*", "/">>
        SC_TITLE_BRACKET == <<"~">>
        text == Strip(data)
        parts == Split(text, COMMENT_END)
        scTitle == IF Contains(parts[1], SC_TITLE_BRACKET)
                   THEN Split(parts[1], SC_TITLE_BRACKET)[2]
                   ELSE LStrip(parts[1], {"/", "*"})
        scContent == Drop(text, Len(parts[1]) + Len(COMMENT_END))
    IN  IF class = "HtmlOutline" THEN [st EXCEPT !.lines = Append(@, text)]
        ELSE IF st.scId # "None" /\ Contains(data, SCENE_DIVIDER)
        THEN [st EXCEPT !.scId = "None"]
        ELSE IF /\ st.lines = <<>>
                /\ StartsWith(text, COMMENT_START)
                /\ Len(parts) > 1
                /\ st.scId # "None"
        THEN [st EXCEPT !.nv.scenes.val[st.scId].title = Strip(scTitle),
                        !.lines = Append(@, scContent)]
        ELSE [st EXCEPT !.lines = Append(@, text)]

(* self.feed(text): the handler of each event, up to the first exception *)
RECURSIVE HtmlFeed(_, _, _)
HtmlFeed(class, st, events) ==
    IF events = <<>> \/ st.exc # "None" THEN st
    ELSE LET ev == Head(events)
             next == CASE ev.type = "start" ->
                             HtmlStartTag(class, st, ev.name, ev.attrs)
                       [] ev.type = "end" -> HtmlEndTag(class, st, ev.name)
                       [] OTHER -> HtmlData(class, st, ev.name)
         IN  HtmlFeed(class, next, Tail(events))

(***************************************************************************)
(* The converter.  A file object is [class, path, nv]; fs maps the paths   *)
(* to the files.                                                           *)
(***************************************************************************)
TextFile(text) == [NoFile EXCEPT !.exists = TRUE, !.text = text]

NoObject == [class |-> "None", path |-> NoneT, nv |-> NewNovel]

(* os.path.isfile(path) *)
IsFile(fs, path) == path \in DOMAIN fs /\ fs[path].exists

(* what open(path) finds *)
FileAt(fs, path) == IF path \in DOMAIN fs THEN fs[path] ELSE NoFile

(* os.path.splitext(path)[0], of a path without directories *)
SplitExtRoot(path) ==
    LET dots == {i \in 2..Len(path) : path[i] = "."}
    IN  IF dots = {} THEN path
        ELSE SubSeq(path, 1, (CHOOSE i \in dots : \A j \in dots : j <= i) - 1)

(* os.path.splitext(path)[1] *)
SplitExtExtension(path) == Drop(path, Len(SplitExtRoot(path)))

(* the class constant EXTENSION *)
EXTENSION(class) ==
    CASE class = "Yw7File" -> <<".", "y", "w", "7">>
      [] class = "Yw6File" -> <<".", "y", "w", "6">>
      [] class = "MdFile" -> <<".", "m", "d">>
      [] OTHER -> <<".", "h", "t", "m", "l">>

(* Novel.__init__ with the filePath setter: the path is kept only if it    *)
(* ends with SUFFIX + EXTENSION, and SUFFIX is '' in every class here      *)
FileObject(class, filePath) ==
    [class |-> class,
     path |-> IF EndsWith(Lower(filePath), EXTENSION(class)) THEN filePath
              ELSE NoneT,
     nv |-> NewNovel]

Unsupported == Msg("ERROR", "File type not supported.")

NotWrittenBack == Msg("ERROR", "This document is not meant to be written back.")

(* ExportSourceFactory.make_file_objects, EXPORT_SOURCE_CLASSES of         *)
(* MdConverter                                                             *)
ExportSourceFactory(sourcePath) ==
    LET fileClasses == <<"Yw7File", "Yw6File">>
        hits == {i \in 1..Len(fileClasses) :
                   EXTENSION(fileClasses[i]) = SplitExtExtension(sourcePath)}
    IN  IF hits = {}
        THEN [message |-> Unsupported, source |-> NoObject, target |-> NoObject]
        ELSE [message |-> Msg("SUCCESS", ""),
              source |-> FileObject(fileClasses[Min(hits)], sourcePath),
              target |-> NoObject]

(* ExportTargetFactory.make_file_objects, EXPORT_TARGET_CLASSES of         *)
(* MdConverter: MdFile.SUFFIX is ''                                        *)
ExportTargetFactory(sourcePath, suffix) ==
    IF suffix = <<>>
    THEN [message |-> Msg("SUCCESS", ""), source |-> NoObject,
          target |-> FileObject("MdFile", SplitExtRoot(sourcePath) \o suffix
                                            \o EXTENSION("MdFile"))]
    ELSE [message |-> Unsupported, source |-> NoObject, target |-> NoObject]

(* ImportSourceFactory.make_file_objects: IMPORT_SOURCE_CLASSES is empty *)
ImportSourceFactory(sourcePath) ==
    [message |-> NotWrittenBack, source |-> NoObject, target |-> NoObject]

(* read_html_file: [message, text] *)
ReadHtmlFile(file) ==
    IF ~file.exists THEN [message |-> Msg("ERROR", "not found."), text |-> <<>>]
    ELSE IF ~file.decodable
    THEN [message |-> Raised("UnicodeDecodeError"), text |-> <<>>]
    ELSE [message |-> Msg("SUCCESS", ""), text |-> file.text]

(* NewProjectFactory.make_file_objects, CREATE_SOURCE_CLASSES of           *)
(* MdConverter.  "<h3" in text.lower(): the markup has an h3 start tag.    *)
NewProjectFactory(fs, sourcePath) ==
    LET DO_NOT_IMPORT == <<"_", "x", "r", "e", "f">>
        targetFile == FileObject("Yw7File", SplitExtRoot(sourcePath)
                                              \o EXTENSION("Yw7File"))
        result == ReadHtmlFile(FileAt(fs, sourcePath))
        made(class) == [message |-> Msg("SUCCESS", ""),
                        source |-> FileObject(class, sourcePath),
                        target |-> targetFile]
        failed(message) ==
            [message |-> message, source |-> NoObject, target |-> NoObject]
    IN  IF EndsWith(SplitExtRoot(sourcePath), DO_NOT_IMPORT)
        THEN failed(NotWrittenBack)
        ELSE IF EndsWith(sourcePath, EXTENSION("HtmlImport"))
        THEN IF IsSuccess(result.message)
             THEN IF \E i \in 1..Len(result.text) :
                        /\ result.text[i].type = "start"
                        /\ result.text[i].name = "h3"
                  THEN made("HtmlOutline") ELSE made("HtmlImport")
             ELSE IF IsError(result.message)
             THEN failed(Msg("ERROR", "Cannot read."))
             ELSE failed(result.message)
        ELSE IF EndsWith(sourcePath, EXTENSION("MdFile")) THEN made("MdFile")
        ELSE failed(Unsupported)

(* a lock test that finds no lock file, for comparison *)
IsLockedNever(fs, filePath) == FALSE

(* Yw7File.is_locked *)
IsLocked(fs, filePath) ==
    IsFile(fs, filePath \o <<".", "l", "o", "c", "k">>)

(* MdFile.read: [self, message] *)
MdFileRead(self, file, options) ==
    LET st == MdAfterLoop(
                 MdScan(ReaderStart(self),
                        MdLinesOf(file.text, options.markdownMode),
                        options.markdownMode, options.noSceneTitles))
    IN  IF ~file.exists
        THEN [self |-> self, message |-> Msg("ERROR", "not found.")]
        ELSE IF ~file.decodable
        THEN [self |-> self, message |-> Msg("ERROR", "Can not parse.")]
        ELSE [self |-> st.nv,
              message |-> IF st.exc # "None" THEN Raised(st.exc)
                          ELSE Msg("SUCCESS", "")]

(* HtmlFile.read: [self, message] *)
HtmlFileRead(class, self, file) ==
    LET result == ReadHtmlFile(file)
        st == HtmlFeed(class, ReaderStart(self), result.text)
    IN  IF ~IsSuccess(result.message)
        THEN [self |-> self, message |-> result.message]
        ELSE [self |-> st.nv,
              message |-> IF st.exc # "None" THEN Raised(st.exc)
                          ELSE Msg("SUCCESS", "")]

(* FileExport.merge: the project attributes or their defaults, and the     *)
(* source's registries                                                     *)
FileExportMerge(self, source) ==
    LET Or(value, default) == IF value # NoneT THEN value ELSE default
        world(srt) == source[srt] # <<>>
    IN  [self EXCEPT
           !.title = Or(source.title, <<>>),
           !.desc = Or(source.desc, <<>>),
           !.author = Or(source.author, <<>>),
           !.fieldTitle1 = Or(source.fieldTitle1, <<"F", "i", "e", "l", "d", " ", "1">>),
           !.fieldTitle2 = Or(source.fieldTitle2, <<"F", "i", "e", "l", "d", " ", "2">>),
           !.fieldTitle3 = Or(source.fieldTitle3, <<"F", "i", "e", "l", "d", " ", "3">>),
           !.fieldTitle4 = Or(source.fieldTitle4, <<"F", "i", "e", "l", "d", " ", "4">>),
           !.srtChapters = IF source.srtChapters # <<>> THEN source.srtChapters
                           ELSE @,
           !.scenes = source.scenes,
           !.chapters = source.chapters,
           !.srtCharacters = IF world("srtCharacters") THEN source.srtCharacters ELSE @,
           !.characters = IF world("srtCharacters") THEN source.characters ELSE @,
           !.srtLocations = IF world("srtLocations") THEN source.srtLocations ELSE @,
           !.locations = IF world("srtLocations") THEN source.locations ELSE @,
           !.srtItems = IF world("srtItems") THEN source.srtItems ELSE @,
           !.items = IF world("srtItems") THEN source.items ELSE @]

(* FileExport.write of an MdFile: [file, message] *)
FileExportWrite(self, file, options) ==
    LET r == GetText(self, MdFileTemplates(options.noSceneTitles),
                     options.markdownMode)
    IN  IF r.exc # "None" THEN [file |-> file, message |-> Raised(r.exc)]
        ELSE IF ~file.writable
        THEN [file |-> file, message |-> Msg("ERROR", "Cannot write.")]
        ELSE [file |-> [TextFile(r.text) EXCEPT !.writable = file.writable],
              message |-> Msg("SUCCESS", "written.")]

(***************************************************************************)
(* State.                                                                  *)
(*   mdProject  the project an MdFile holds for export                     *)
(*   mdOptions  the keyword arguments markdownMode, noSceneTitles          *)
(*   mdFile     the text of the Markdown file, NoneT while there is none   *)
(*   mdParsed   the MdFile that read mdFile (the locals of read() too)     *)
(*   mdPc       "start", "written", "read", or "raised"                    *)
(*   mdOrigin   "project" or "document": what the run started from         *)
(*   mdClass    the exporter's class: "MdFile", or "Marked" for a subclass *)
(*              that defines every template                                *)
(*   mdExport   the locals of get_chapters() when it last returned         *)
(***************************************************************************)
VARIABLES mdProject, mdOptions, mdFile, mdParsed, mdPc, mdOrigin, mdClass,
          mdExport

(***************************************************************************)
(*   target        the Yw7File that merges                                 *)
(*   targetFile    the project file at the target's path                   *)
(*   targetLocked  a file '<path>.lock' exists                             *)
(*   source        the Novel merged into the target                        *)
(*   loaded        the target as merge found it, its own file read         *)
(*   message       what the last method returned                           *)
(*   mergePc       "start", "merged", or "written"                         *)
(***************************************************************************)
VARIABLES target, targetFile, targetLocked, source, loaded, message, mergePc

(***************************************************************************)
(*   cnvFs          the files, by path                                     *)
(*   cnvOptions     the keyword arguments markdownMode, noSceneTitles      *)
(*   cnvPc          "idle", or the stage convert() is about to enter:      *)
(*                  "convert", "read", "merge", "write"                    *)
(*   cnvCaller      who called convert(): "export_from_yw", "create_yw7",  *)
(*                  or "direct" for a call from outside run()              *)
(*   cnvSourcePath  the argument of run()                                  *)
(*   cnvSource      the source file object                                 *)
(*   cnvTarget      the target file object                                 *)
(*   cnvMessage     what the last call returned, or the exception it       *)
(*                  raised                                                 *)
(*   cnvLog         the calls of the last run()/convert() to the yes/no    *)
(*                  collaborator and to the file objects, with what they   *)
(*                  returned                                               *)
(*   cnvInfoHow     the text the Ui got by set_info_how                    *)
(*   cnvNewFile     YwCnvUi.newFile                                        *)
(*   cnvRuns        the number of calls so far                             *)
(***************************************************************************)
VARIABLES cnvFs, cnvOptions, cnvPc, cnvCaller, cnvSourcePath, cnvSource,
          cnvTarget, cnvMessage, cnvLog, cnvInfoHow, cnvNewFile, cnvRuns

(***************************************************************************)
(*   mkInternal  the yWriter markup text the translator started from       *)
(*   mkMode      markdownMode of the MdFile that translates                *)
(*   mkText      the text as the last conversion left it                   *)
(*   mkExported  the results of convert_from_yw so far, in order           *)
(*   mkPc        "idle", or the side mkText is on: "internal", "external"  *)
(***************************************************************************)
VARIABLES mkInternal, mkMode, mkText, mkExported, mkPc

(***************************************************************************)
(*   htmlText   the markup HTMLParser.feed() has still to hand to the      *)
(*              handlers, as events                                        *)
(*   htmlFile   the HtmlImport that is fed: its project and its _chCount,   *)
(*              _scCount, _lines, _chId and _scId                          *)
(*   htmlPc     "off", "feed" while feed() runs, "fed" when it returned,  *)
(*              "raised" when a handler raised                             *)
(***************************************************************************)
VARIABLES htmlText, htmlFile, htmlPc

mdVars ==
    <<mdProject, mdOptions, mdFile, mdParsed, mdPc, mdOrigin, mdClass,
      mdExport>>

cnvVars ==
    <<cnvFs, cnvOptions, cnvPc, cnvCaller, cnvSourcePath, cnvSource,
      cnvTarget, cnvMessage, cnvLog, cnvInfoHow, cnvNewFile, cnvRuns>>

mergeVars ==
    <<target, targetFile, targetLocked, source, loaded, message, mergePc>>

markupVars == <<mkInternal, mkMode, mkText, mkExported, mkPc>>

htmlVars == <<htmlText, htmlFile, htmlPc>>

vars == <<mdVars, mergeVars, cnvVars, markupVars, htmlVars>>

(* the variables of the merge while the Markdown file is at work, and the  *)
(* reverse                                                                 *)
MergeIdle ==
    /\ target = NewNovel /\ targetFile = NoFile /\ targetLocked = FALSE
    /\ source = NewNovel /\ loaded = NewNovel /\ message = NoMsg
    /\ mergePc = "idle"

(* no text is being translated *)
MarkupIdle ==
    /\ mkInternal = <<>> /\ mkMode = FALSE /\ mkText = <<>>
    /\ mkExported = <<>> /\ mkPc = "idle"

(* no HTML file is being parsed *)
HtmlIdle ==
    /\ htmlText = <<>> /\ htmlPc = "off"
    /\ htmlFile = [nv |-> NewNovel, chCount |-> 0, scCount |-> 0,
                   lines |-> <<>>, chId |-> "None", scId |-> "None",
                   exc |-> "None"]

(* the converter as YwCnvUi.__init__ leaves it, no file at hand *)
CnvIdle ==
    /\ cnvFs = <<>> /\ cnvPc = "off" /\ cnvCaller = "None"
    /\ cnvOptions = [markdownMode |-> FALSE, noSceneTitles |-> FALSE]
    /\ cnvSourcePath = NoneT /\ cnvSource = NoObject /\ cnvTarget = NoObject
    /\ cnvMessage = NoMsg /\ cnvLog = <<>> /\ cnvInfoHow = NoMsg
    /\ cnvNewFile = NoneT /\ cnvRuns = 0

MdIdle ==
    /\ mdProject = NewNovel /\ mdFile = NoneT /\ mdPc = "idle"
    /\ mdOptions = [markdownMode |-> FALSE, noSceneTitles |-> FALSE]
    /\ mdParsed = [nv |-> NewNovel, chCount |-> 0, scCount |-> 0,
                   lines |-> <<>>, chId |-> "None", scId |-> "None",
                   exc |-> "None"]
    /\ mdOrigin = "none"
    /\ mdClass = "MdFile" /\ mdExport = NoExport

(***************************************************************************)
(* Bounds of the Markdown state space.                                     *)
(***************************************************************************)
(* the most scenes a chapter of an exported project has *)
MaxScenes == 2

(* the most lines a document has below its first line *)
MaxLines == 3

(* the chapters an exported project may have *)
ProjectChapterIds == <<"1", "2">>

(* the sequences over S of length 0..n *)
RECURSIVE SeqsUpTo(_, _)
SeqsUpTo(S, n) ==
    IF n = 0 THEN {<<>>}
    ELSE LET shorter == SeqsUpTo(S, n - 1)
         IN  shorter \cup {Append(q, x) : q \in shorter, x \in S}

RECURSIVE SumTo(_, _)
SumTo(shape, i) == IF i = 0 THEN 0 ELSE shape[i] + SumTo(shape, i - 1)

(* a project's shape: the number of scenes of each chapter *)
Shapes == SeqsUpTo(0..MaxScenes, Len(ProjectChapterIds))

(* scene texts *)
TenWords == <<"a", " ", "b", " ", "c", " ", "d", " ", "e", " ", "f", " ",
              "g", " ", "h", " ", "i", " ", "j">>

SceneVariants ==
    {"plain", "twoLines", "markup", "comment", "tenWords", "empty",
     "divider", "heading", "noContent", "untitled", "blankTitle", "unused",
     "notes", "todo", "doNotExport", "appendToPrev", "noStatus"}

(* the n-th scene of a project, as yWriter would hold it *)
SceneOf(n, variant) ==
    LET sc == SetSceneContent([NewScene EXCEPT !.title = <<"S", IdStr(n)>>,
                                               !.status = STATUS_DRAFT],
                              <<"a", " ", "b">>)
    IN  CASE variant = "twoLines" -> SetSceneContent(sc, <<"a", NL, "b">>)
          [] variant = "markup" ->
               SetSceneContent(sc, <<"[", "i", "]", "a", "[", "/", "i", "]",
                                     " ", "[", "b", "]", "b", "[", "/", "b",
                                     "]">>)
          [] variant = "comment" ->
               SetSceneContent(sc, <<"/", "*", "c", "*", "/", " ", "d">>)
          [] variant = "tenWords" -> SetSceneContent(sc, TenWords)
          [] variant = "empty" -> SetSceneContent(sc, <<>>)
          [] variant = "divider" ->
               SetSceneContent(sc, <<"a", NL>> \o SCENE_DIVIDER \o <<NL, "b">>)
          [] variant = "heading" -> SetSceneContent(sc, <<"#", " ", "a">>)
          [] variant = "noContent" -> [sc EXCEPT !.sceneContent = NoneT,
                                                 !.wordCount = 0,
                                                 !.letterCount = 0]
          [] variant = "untitled" -> [sc EXCEPT !.title = NoneT]
          [] variant = "blankTitle" -> [sc EXCEPT !.title = <<>>]
          [] variant = "unused" -> [sc EXCEPT !.isUnused = "True"]
          [] variant = "notes" -> [sc EXCEPT !.isNotesScene = "True",
                                             !.isUnused = "True"]
          [] variant = "todo" -> [sc EXCEPT !.isTodoScene = "True",
                                            !.isUnused = "True"]
          [] variant = "doNotExport" -> [sc EXCEPT !.doNotExport = "True"]
          [] variant = "appendToPrev" -> [sc EXCEPT !.appendToPrev = "True"]
          [] variant = "noStatus" -> [sc EXCEPT !.status = NoneI]
          [] OTHER -> sc

ChapterVariants ==
    {"chapter", "part", "notes", "todo", "unused", "oldNotes",
     "suppressTitle", "untitled"}

(* the i-th chapter of a project *)
ChapterOf(i, srtScenes, variant) ==
    LET ch == [NewChapter EXCEPT !.title = <<"C", IdStr(i)>>,
                                 !.chLevel = 0, !.oldType = 0, !.chType = 0,
                                 !.isUnused = "False",
                                 !.suppressChapterTitle = "False",
                                 !.suppressChapterBreak = "False",
                                 !.isTrash = "False",
                                 !.srtScenes = srtScenes]
    IN  CASE variant = "part" -> [ch EXCEPT !.chLevel = 1]
          [] variant = "notes" -> [ch EXCEPT !.chType = 1, !.oldType = 1]
          [] variant = "todo" -> [ch EXCEPT !.chType = 2, !.oldType = 1]
          [] variant = "unused" -> [ch EXCEPT !.isUnused = "True"]
          [] variant = "oldNotes" -> [ch EXCEPT !.chType = NoneI, !.oldType = 1]
          [] variant = "suppressTitle" ->
               [ch EXCEPT !.suppressChapterTitle = "True"]
          [] variant = "untitled" -> [ch EXCEPT !.title = NoneT]
          [] OTHER -> ch

(* the project of the given shape whose chapter `chAt' and scene `scAt'    *)
(* are the given variants (0: no such chapter or scene), all others plain  *)
ProjectOf(shape, chAt, chVariant, scAt, scVariant) ==
    LET nCh == Len(shape)
        nSc == SumTo(shape, nCh)
        ids(i) == [k \in 1..shape[i] |-> IdStr(SumTo(shape, i - 1) + k)]
        chKeys == SubSeq(ProjectChapterIds, 1, nCh)
        scKeys == [n \in 1..nSc |-> IdStr(n)]
        Index(keys, id) == CHOOSE i \in 1..Len(keys) : keys[i] = id
    IN  [NewNovel EXCEPT
           !.title = <<"N">>, !.author = <<"A">>,
           !.srtChapters = chKeys,
           !.chapters =
              [keys |-> chKeys,
               val |-> [id \in {chKeys[i] : i \in 1..nCh} |->
                          LET i == Index(chKeys, id)
                          IN  ChapterOf(i, ids(i),
                                 IF i = chAt THEN chVariant ELSE "chapter")]],
           !.scenes =
              [keys |-> scKeys,
               val |-> [id \in {scKeys[n] : n \in 1..nSc} |->
                          LET n == Index(scKeys, id)
                          IN  SceneOf(n, IF n = scAt THEN scVariant
                                         ELSE "plain")]]]

(* the project p with do-not-export set in every scene of chapter chId *)
AllScenesExcluded(p, chId) ==
    [p EXCEPT !.scenes.val =
        [id \in DOMAIN @ |->
           IF InSeq(id, p.chapters.val[chId].srtScenes)
           THEN [@[id] EXCEPT !.doNotExport = "True"] ELSE @[id]]]

(* the projects MdInit starts from: one chapter or one scene is varied *)
MdProjects ==
    {ProjectOf(shape, 0, "chapter", scAt, v) :
        shape \in Shapes, scAt \in 0..(Len(ProjectChapterIds) * MaxScenes),
        v \in SceneVariants}
    \cup
    {ProjectOf(shape, chAt, v, 0, "plain") :
        shape \in Shapes, chAt \in 1..Len(ProjectChapterIds),
        v \in ChapterVariants}
    \cup
    {AllScenesExcluded(ProjectOf(shape, chAt, v, 0, "plain"),
                       ProjectChapterIds[chAt]) :
        shape \in {sh \in Shapes : Len(sh) = Len(ProjectChapterIds)},
        chAt \in 1..Len(ProjectChapterIds),
        v \in {"chapter", "part", "notes", "suppressTitle"}}

(* the lines a hand-written document is made of: its first line, and the   *)
(* lines below it                                                          *)
FirstLines == {<<>>, <<"#", " ", "P">>, <<"#", "#", " ", "C">>, <<"#">>}

LineKinds ==
    {<<>>,
     <<"#", "#", " ", "D">>,
     <<"a", " ", "b">>,
     TenWords,
     SCENE_DIVIDER,
     <<"<", "!", "-", "-", "-", "T", "-", "-", "-", ">", "x">>,
     <<"<", "!", "-", "-", "-", "-", "T", "-", "-", "-", ">", "x">>}

MdDocuments ==
    {Join(<<first>> \o ls, <<NL>>) :
        first \in FirstLines, ls \in SeqsUpTo(LineKinds, MaxLines)}

MdOptionSets == [markdownMode : BOOLEAN, noSceneTitles : BOOLEAN]

(* an MdFile is constructed for a project to export, or for a document to  *)
(* import                                                                  *)
MdInit ==
    /\ MergeIdle
    /\ CnvIdle
    /\ MarkupIdle
    /\ HtmlIdle
    /\ mdOptions \in MdOptionSets
    /\ mdParsed = ReaderStart(NewNovel)
    /\ mdPc = "start"
    /\ mdExport = NoExport
    /\ \/ /\ mdOrigin = "project"
          /\ mdProject \in MdProjects
          /\ mdFile = NoneT
          /\ mdClass \in {"MdFile", "Marked"}
       \/ /\ mdOrigin = "document"
          /\ mdProject = NewNovel
          /\ mdFile \in MdDocuments
          /\ mdClass = "MdFile"

(* FileExport.write: get_text, then the text is written to the file *)
MdWrite ==
    /\ mdPc = "start"
    /\ mdOrigin = "project"
    /\ \E tpl \in {TemplatesOf(mdClass, mdOptions.noSceneTitles)} :
          \E r \in {GetText(mdProject, tpl, mdOptions.markdownMode)} :
             /\ mdFile' = IF r.exc = "None" THEN r.text ELSE mdFile
             /\ mdPc' = IF r.exc = "None" THEN "written" ELSE "raised"
             /\ mdExport' = GetChapters(mdProject, tpl, mdOptions.markdownMode)
    /\ UNCHANGED <<mdProject, mdOptions, mdParsed, mdOrigin, mdClass,
                   mergeVars, cnvVars, markupVars, htmlVars>>

(* MdFile.read *)
MdRead ==
    /\ mdClass = "MdFile"
    /\ \/ mdPc = "written"
       \/ mdPc = "start" /\ mdOrigin = "document"
    /\ LET st == MdAfterLoop(
                    MdScan(ReaderStart(NewNovel),
                           MdLinesOf(mdFile, mdOptions.markdownMode),
                           mdOptions.markdownMode, mdOptions.noSceneTitles))
       IN  /\ mdParsed' = st
           /\ mdPc' = IF st.exc = "None" THEN "read" ELSE "raised"
    /\ UNCHANGED <<mdProject, mdOptions, mdFile, mdOrigin, mdClass, mdExport,
                   mergeVars, cnvVars, markupVars, htmlVars>>

MdNext == MdWrite \/ MdRead

SpecMd == MdInit /\ [][MdNext]_vars

(***************************************************************************)
(* Properties of the Markdown export and import (SpecMd).                  *)
(***************************************************************************)
(* text.split(): the whitespace-delimited tokens of a text *)
RECURSIVE Tokens(_)
Tokens(s) ==
    LET starts == {i \in 1..Len(s) : s[i] \notin Whitespace}
        i == Min(starts)
        stops == {j \in i..Len(s) : s[j] \in Whitespace}
        j == IF stops = {} THEN Len(s) + 1 ELSE Min(stops)
    IN  IF starts = {} THEN <<>>
        ELSE <<SubSeq(s, i, j - 1)>> \o Tokens(Drop(s, j - 1))

(* every chapter of the project is a regular chapter or part and every     *)
(* scene a regular scene with a title and a content, so that the exporter  *)
(* writes all of them                                                      *)
AllExported(nv) ==
    /\ \A chId \in DOMAIN nv.chapters.val :
          LET ch == nv.chapters.val[chId]
          IN  /\ ch.chType = 0 /\ ch.oldType = 0
              /\ ~IsTrue(ch.isUnused) /\ ~IsTrue(ch.suppressChapterTitle)
              /\ ch.title # NoneT
    /\ \A scId \in DOMAIN nv.scenes.val :
          LET sc == nv.scenes.val[scId]
          IN  /\ ~IsTrue(sc.isUnused) /\ ~IsTrue(sc.isNotesScene)
              /\ ~IsTrue(sc.isTodoScene) /\ ~IsTrue(sc.doNotExport)
              /\ ~IsTrue(sc.appendToPrev)
              /\ Truthy(sc.title) /\ sc.sceneContent # NoneT

(* the chapters of q, in order, are the chapters of p: same titles, the    *)
(* same number of scenes, and scene by scene the same titles and the same  *)
(* content up to whitespace                                                *)
SameStructure(p, q) ==
    /\ Len(q.srtChapters) = Len(p.srtChapters)
    /\ Len(q.scenes.keys) = Len(p.scenes.keys)
    /\ \A i \in 1..Len(p.srtChapters) :
          LET pc == p.chapters.val[p.srtChapters[i]]
              qc == q.chapters.val[q.srtChapters[i]]
          IN  /\ qc.title = pc.title
              /\ Len(qc.srtScenes) = Len(pc.srtScenes)
              /\ \A k \in 1..Len(pc.srtScenes) :
                    LET ps == p.scenes.val[pc.srtScenes[k]]
                        qs == q.scenes.val[qc.srtScenes[k]]
                    IN  /\ qs.title = ps.title
                        /\ qs.sceneContent # NoneT
                        /\ Tokens(qs.sceneContent) = Tokens(ps.sceneContent)

(* C1: a project exported with Markdown mode off and scene titles on, and  *)
(* read back from the exported text, has the same number of chapters and   *)
(* scenes, the same chapter and scene titles, and scene contents equal up  *)
(* to whitespace.                                                          *)
RoundTrip ==
    (/\ mdPc = "read" /\ mdOrigin = "project"
     /\ ~mdOptions.markdownMode /\ ~mdOptions.noSceneTitles
     /\ AllExported(mdProject))
    => SameStructure(mdProject, mdParsed.nv)

(* C10: when read() has consumed all lines, every scene it opened, the     *)
(* last one of the document included, has its content set to the joined    *)
(* lines collected for it and its status classified from that content.     *)
EndOfInputFlushes ==
    mdPc = "read" =>
       /\ \A scId \in DOMAIN mdParsed.nv.scenes.val :
             /\ mdParsed.nv.scenes.val[scId].sceneContent # NoneT
             /\ mdParsed.nv.scenes.val[scId].status
                   \in {STATUS_OUTLINE, STATUS_DRAFT}
       /\ mdParsed.nv =
             WriteSceneContent(mdParsed.nv, mdParsed.scId, mdParsed.lines)

(* the scenes read() has closed: all but the one still open *)
ClosedScenes ==
    {scId \in DOMAIN mdParsed.nv.scenes.val : scId # mdParsed.scId}

(* heading, text, divider, text *)
TwoSceneDocument ==
    Join(<<<<"#", " ", "P">>, <<"a", " ", "b">>, SCENE_DIVIDER,
           <<"a", " ", "b">>>>, <<NL>>)

(* C11: after read(), every scene closed by a heading or a scene divider   *)
(* has a content, and its status is Outline if the word count of that      *)
(* content is below 10 and Draft otherwise; the document "heading, text,   *)
(* divider, text" gives one chapter with two scenes, the first holding the *)
(* first text with status Outline.                                         *)
ClosedSceneIsClassified ==
    mdPc = "read" =>
       /\ \A scId \in ClosedScenes :
             LET sc == mdParsed.nv.scenes.val[scId]
             IN  /\ sc.sceneContent # NoneT
                 /\ sc.status = IF WordCountOf(sc.sceneContent) < 10
                                THEN STATUS_OUTLINE ELSE STATUS_DRAFT
       /\ mdFile = TwoSceneDocument =>
             /\ mdParsed.nv.srtChapters = <<"1">>
             /\ mdParsed.nv.chapters.val["1"].srtScenes = <<"1", "2">>
             /\ mdParsed.nv.scenes.keys = <<"1", "2">>
             /\ mdParsed.nv.scenes.val["1"].sceneContent = <<"a", " ", "b">>
             /\ mdParsed.nv.scenes.val["1"].status = STATUS_OUTLINE

(* a document was read in which a divider or heading closed a scene of ten *)
(* words, which became a Draft                                             *)
ClosedSceneIsClassifiedWitness ==
    /\ mdPc = "read" /\ mdOrigin = "document"
    /\ \E scId \in ClosedScenes :
          /\ WordCountOf(mdParsed.nv.scenes.val[scId].sceneContent) >= 10
          /\ mdParsed.nv.scenes.val[scId].status = STATUS_DRAFT

(* the chapters of the exported project that have scenes, all of them with *)
(* do-not-export set, and are not of the ToDo, Notes or Unused type, which *)
(* select a template before the scenes are looked at                       *)
ExcludedChapters ==
    {chId \in DOMAIN mdProject.chapters.val :
        LET ch == mdProject.chapters.val[chId]
        IN  /\ InSeq(chId, mdProject.srtChapters)
            /\ ch.srtScenes # <<>>
            /\ \A i \in 1..Len(ch.srtScenes) :
                  mdProject.scenes.val[ch.srtScenes[i]].doNotExport = "True"
            /\ ch.chType \notin {1, 2} /\ ch.oldType # 1
            /\ ch.isUnused # "True"}

ChapterTemplateNames ==
    {"partTemplate", "chapterTemplate", "notesChapterTemplate",
     "todoChapterTemplate", "unusedChapterTemplate",
     "notExportedChapterTemplate"}

SceneTemplateNames ==
    {"sceneTemplate", "firstSceneTemplate", "appendedSceneTemplate",
     "notesSceneTemplate", "todoSceneTemplate", "unusedSceneTemplate",
     "notExportedSceneTemplate"}

(* the project without the chapter in its chapter order *)
WithoutChapter(p, chId) ==
    [p EXCEPT !.srtChapters = SelectSeq(@, LAMBDA id : id # chId)]

ScanningNeverRaises == mdParsed.exc = "None"

(* the lines read() scans, and the state of its loop before line k *)
ScannedLines == MdLinesOf(mdFile, mdOptions.markdownMode)

BeforeLine(k) ==
    MdScan(ReaderStart(NewNovel), SubSeq(ScannedLines, 1, k - 1),
           mdOptions.markdownMode, mdOptions.noSceneTitles)

(* a document was scanned, to its end or up to an exception *)
Scanned == mdPc = "read" \/ (mdPc = "raised" /\ mdParsed.exc # "None")

(* the text of a heading line: what follows its '#' characters and the     *)
(* blanks after them                                                       *)
HeadingText(mdLine) ==
    LET rest == Drop(mdLine, SkipWhile(mdLine, {"#"}))
    IN  Drop(rest, SkipWhile(rest, {" "}))

(* the number of '#' characters a line begins with *)
HeadingLevel(mdLine) == SkipWhile(mdLine, {"#"})

(* C22: every line of a scanned document that starts with '#' closes the   *)
(* open scene, if there is one, and opens a new chapter: titled with the   *)
(* heading's text, appended to the chapter order, without scenes, a part   *)
(* (chLevel 1) for one leading '#' and a chapter (chLevel 0) for two.      *)
HeadingOpensChapter ==
    Scanned =>
       \A k \in 1..Len(ScannedLines) :
          LET mdLine == ScannedLines[k]
              b == BeforeLine(k)
              a == BeforeLine(k + 1)
          IN  (StartsWith(mdLine, <<"#">>) /\ b.exc = "None") =>
                 /\ a.exc = "None"
                 /\ a.scId = "None"
                 /\ b.scId # "None" =>
                       a.nv.scenes.val[b.scId].sceneContent
                          = Join(b.lines, <<NL>>)
                 /\ a.chId # "None"
                 /\ ~Has(b.nv.chapters, a.chId)
                 /\ Has(a.nv.chapters, a.chId)
                 /\ a.nv.srtChapters = Append(b.nv.srtChapters, a.chId)
                 /\ a.nv.chapters.val[a.chId].title = HeadingText(mdLine)
                 /\ a.nv.chapters.val[a.chId].srtScenes = <<>>
                 /\ HeadingLevel(mdLine) = 1 =>
                       a.nv.chapters.val[a.chId].chLevel = 1
                 /\ HeadingLevel(mdLine) = 2 =>
                       a.nv.chapters.val[a.chId].chLevel = 0

(* the first line after line k that is not blank, 0 if there is none *)
NextNonBlank(k) ==
    LET later == {j \in (k + 1)..Len(ScannedLines) : ScannedLines[j] # <<>>}
    IN  IF later = {} THEN 0 ELSE Min(later)

IsDividerLine(mdLine) ==
    ~StartsWith(mdLine, <<"#">>) /\ Contains(mdLine, SCENE_DIVIDER)

CommentStart == IF mdOptions.markdownMode THEN <<"<", "!", "-", "-", "-">>
                ELSE <<"/", "*">>

CommentEnd == IF mdOptions.markdownMode THEN <<"-", "-", "-", ">">>
              ELSE <<"*", "/">>

(* line k opens a scene: it is text inside a chapter while no scene is     *)
(* open                                                                    *)
OpensScene(k) ==
    /\ BeforeLine(k).exc = "None"
    /\ BeforeLine(k).scId = "None"
    /\ BeforeLine(k).chId # "None"
    /\ ScannedLines[k] # <<>>
    /\ ~StartsWith(ScannedLines[k], <<"#">>)
    /\ ~Contains(ScannedLines[k], SCENE_DIVIDER)

(* C24: with scene titles enabled, a line that opens a scene and starts    *)
(* with the comment prefix gives the scene the text up to the first        *)
(* closing delimiter as its title, and only the rest of the line starts    *)
(* the content; with noSceneTitles, the scene is titled 'Scene N' and the  *)
(* whole line starts the content.                                          *)
LeadingCommentIsTitle ==
    Scanned =>
       \A k \in 1..Len(ScannedLines) :
          LET mdLine == ScannedLines[k]
              a == BeforeLine(k + 1)
              rest == Drop(mdLine, Len(CommentStart))
              cut == Find(rest, CommentEnd)
          IN  OpensScene(k) =>
                 /\ a.scId # "None"
                 /\ (/\ ~mdOptions.noSceneTitles
                     /\ StartsWith(mdLine, CommentStart)
                     /\ cut > 0) =>
                       /\ a.nv.scenes.val[a.scId].title = SubSeq(rest, 1, cut - 1)
                       /\ a.lines = <<Drop(rest, cut + Len(CommentEnd) - 1)>>
                 /\ mdOptions.noSceneTitles =>
                       /\ a.nv.scenes.val[a.scId].title
                             = <<"S", "c", "e", "n", "e", " ">> \o a.scId
                       /\ a.lines = <<mdLine>>

(* the scenes an export goes through, in order: [ch, sc] for every chapter *)
(* of the chapter order and every scene of its scene list                  *)
RECURSIVE ScenesInOrder(_, _)
ScenesInOrder(nv, chIds) ==
    IF chIds = <<>> THEN <<>>
    ELSE [i \in 1..Len(nv.chapters.val[Head(chIds)].srtScenes) |->
            [ch |-> Head(chIds),
             sc |-> nv.chapters.val[Head(chIds)].srtScenes[i]]]
         \o ScenesInOrder(nv, Tail(chIds))

(* the rule that classifies a scene, in the order the rules are tried, and *)
(* the template of each rule                                               *)
SceneRule(nv, e) ==
    LET sc == nv.scenes.val[e.sc]
        ch == nv.chapters.val[e.ch]
        excluded == \A i \in 1..Len(ch.srtScenes) :
                       nv.scenes.val[ch.srtScenes[i]].doNotExport = "True"
    IN  CASE sc.isTodoScene = "True" -> "todo"
          [] sc.isTodoScene # "True" /\ sc.isNotesScene = "True" -> "notes"
          [] sc.isTodoScene # "True" /\ sc.isNotesScene # "True"
             /\ (sc.isUnused = "True" \/ ch.isUnused = "True") -> "unused"
          [] OTHER ->
               IF ch.oldType = 1 THEN "info"
               ELSE IF sc.doNotExport = "True" \/ excluded THEN "excluded"
               ELSE "ordinary"

RuleTemplate(rule) ==
    CASE rule = "todo" -> "todoSceneTemplate"
      [] rule = "notes" -> "notesSceneTemplate"
      [] rule = "unused" -> "unusedSceneTemplate"
      [] rule = "info" -> "notesSceneTemplate"
      [] rule = "excluded" -> "notExportedSceneTemplate"
      [] OTHER -> "sceneTemplate"

(* the number of ordinary scenes among the first p, and their word and     *)
(* letter counts added up                                                  *)
RECURSIVE OrdinaryTotal(_, _, _, _)
OrdinaryTotal(nv, flat, p, count) ==
    IF p = 0 THEN 0
    ELSE OrdinaryTotal(nv, flat, p - 1, count)
         + (IF SceneRule(nv, flat[p]) # "ordinary" THEN 0
            ELSE IF count = "scenes" THEN 1
            ELSE nv.scenes.val[flat[p].sc][count])

ChapterRule(nv, chId) ==
    LET ch == nv.chapters.val[chId]
        excluded == /\ ch.srtScenes # <<>>
                    /\ \A i \in 1..Len(ch.srtScenes) :
                          nv.scenes.val[ch.srtScenes[i]].doNotExport = "True"
    IN  IF ch.chType = 2 THEN "todo"
        ELSE IF ch.chType = 1 THEN "notes"
        ELSE IF ch.isUnused = "True" THEN "unused"
        ELSE IF ch.oldType = 1 THEN "info"
        ELSE IF excluded THEN "excluded"
        ELSE IF ch.chLevel = 1 THEN "part"
        ELSE "ordinary"

ChapterRuleTemplate(rule) ==
    CASE rule = "todo" -> "todoChapterTemplate"
      [] rule = "notes" -> "notesChapterTemplate"
      [] rule = "unused" -> "unusedChapterTemplate"
      [] rule = "info" -> "notesChapterTemplate"
      [] rule = "excluded" -> "notExportedChapterTemplate"
      [] rule = "part" -> "partTemplate"
      [] OTHER -> "chapterTemplate"

(* the number of ordinary chapters among the first p of the chapter order *)
OrdinaryChapters(nv, p) ==
    Cardinality({q \in 1..p : ChapterRule(nv, nv.srtChapters[q]) = "ordinary"})

(* an export was run on a project none of whose scenes makes the scene     *)
(* mapping raise                                                           *)
Exported ==
    /\ mdOrigin = "project" /\ mdPc # "start"
    /\ \A scId \in DOMAIN mdProject.scenes.val :
          SceneMappingExc(mdProject, scId) = "None"

(* C26: in an export, every chapter is classified by the first rule that   *)
(* applies, in the order todo, notes, unused, old-format info, fully        *)
(* unexportable, part, ordinary chapter, and rendered with the template of  *)
(* its class; only an ordinary chapter takes a chapter number, so that the  *)
(* ordinary chapters are numbered 1, 2, 3, ... in chapter order, whatever   *)
(* chapters of other classes lie between them.                              *)
ChapterIsClassified ==
    Exported =>
       LET nv == mdProject
           tpl == TemplatesOf(mdClass, mdOptions.noSceneTitles)
           lines == mdExport.lines
       IN  /\ mdExport.exc = "None"
           /\ mdExport.chapterNumber = OrdinaryChapters(nv, Len(nv.srtChapters))
           /\ \A p \in 1..Len(nv.srtChapters) :
                 LET rule == ChapterRule(nv, nv.srtChapters[p])
                     heads == {i \in 1..Len(lines) :
                                  /\ lines[i].kind \in ChapterTemplateNames
                                  /\ lines[i].id = nv.srtChapters[p]}
                 IN  /\ Cardinality(heads) <= 1
                     /\ tpl[ChapterRuleTemplate(rule)] # <<>> => heads # {}
                     /\ \A i \in heads :
                           /\ lines[i].kind = ChapterRuleTemplate(rule)
                           /\ lines[i].num = IF rule = "ordinary"
                                             THEN OrdinaryChapters(nv, p) ELSE 0

(* the chapter whose scene list holds the scene *)
ChapterOfScene(nv, scId) ==
    CHOOSE chId \in DOMAIN nv.chapters.val :
       InSeq(scId, nv.chapters.val[chId].srtScenes)

(* blocks i and j of the export are scenes rendered in the same chapter *)
ScenesOfOneChapter(i, j) ==
    /\ mdExport.lines[i].kind \in SceneTemplateNames
    /\ mdExport.lines[j].kind \in SceneTemplateNames
    /\ ChapterOfScene(mdProject, mdExport.lines[i].id)
          = ChapterOfScene(mdProject, mdExport.lines[j].id)

IsOrdinaryBlock(i) ==
    SceneRule(mdProject,
              [ch |-> ChapterOfScene(mdProject, mdExport.lines[i].id),
               sc |-> mdExport.lines[i].id]) = "ordinary"

AppendsToPrevious(i) ==
    mdProject.scenes.val[mdExport.lines[i].id].appendToPrev = "True"

IdsUpTo(n) == [i \in 1..n |-> IdStr(i)]

(* the line number of the first heading, one past the last line if there   *)
(* is none                                                                 *)
FirstHeading ==
    LET headings == {k \in 1..Len(ScannedLines) :
                       StartsWith(ScannedLines[k], <<"#">>)}
    IN  IF headings = {} THEN Len(ScannedLines) + 1 ELSE Min(headings)

(* the chapters and scenes of the project are those of the chapter order   *)
(* and of the scene lists, each once, numbered '1', '2', ... in this order *)
IsNumberedTree(nv) ==
    LET listed == ScenesInOrder(nv, nv.srtChapters)
    IN  /\ nv.srtChapters = IdsUpTo(Len(nv.srtChapters))
        /\ DOMAIN nv.chapters.val = {IdStr(i) : i \in 1..Len(nv.srtChapters)}
        /\ [i \in 1..Len(listed) |-> listed[i].sc] = IdsUpTo(Len(listed))
        /\ DOMAIN nv.scenes.val = {IdStr(i) : i \in 1..Len(listed)}

(* C30: for every input, after MdFile.read every scene id is a key of the  *)
(* scene registry and is listed once, in one chapter's scene list; every   *)
(* chapter id is listed once in the chapter order; chapter ids and scene   *)
(* ids are '1', '2', ... in order of appearance, the scenes counted        *)
(* across the document; the lines before the first heading create neither  *)
(* a chapter nor a scene.                                                  *)
ReadBuildsNumberedTree ==
    Scanned =>
       /\ IsNumberedTree(mdParsed.nv)
       /\ BeforeLine(FirstHeading).nv = NewNovel

(* the same of the documents read() scans to the end *)
ReadToEndBuildsNumberedTree ==
    (Scanned /\ mdParsed.exc = "None") =>
       /\ IsNumberedTree(mdParsed.nv)
       /\ BeforeLine(FirstHeading).nv = NewNovel

(***************************************************************************)
(* The markup translator: an MdFile translates a scene text to Markdown    *)
(* (convert_from_yw), the Markdown back to yWriter markup (convert_to_yw), *)
(* and so on.                                                              *)
(***************************************************************************)
(* the most pieces a translated text is made of *)
MaxTokens == 3

(* the most calls of convert_from_yw on one text *)
MaxExports == 2

MarkupTokens ==
    {<<"a">>, <<" ">>, <<NL>>, <<"*">>,
     <<"[", "i", "]">>, <<"[", "/", "i", "]">>,
     <<"[", "b", "]">>, <<"[", "/", "b", "]">>,
     <<"/", "*">>, <<"*", "/">>, <<"[", "h", "1", "]">>}

MarkupTexts == {Concat(ts) : ts \in SeqsUpTo(MarkupTokens, MaxTokens)}

MarkupInit ==
    /\ MdIdle
    /\ MergeIdle
    /\ CnvIdle
    /\ HtmlIdle
    /\ mkInternal \in MarkupTexts
    /\ mkMode \in BOOLEAN
    /\ mkText = mkInternal
    /\ mkExported = <<>>
    /\ mkPc = "internal"

(* text = self.convert_from_yw(text) *)
ConvertFromYw ==
    /\ mkPc = "internal"
    /\ Len(mkExported) < MaxExports
    /\ mkText' = MdConvertFromYw(mkText, mkMode)
    /\ mkExported' = Append(mkExported, mkText')
    /\ mkPc' = "external"
    /\ UNCHANGED <<mkInternal, mkMode, mdVars, mergeVars, cnvVars, htmlVars>>

(* text = self.convert_to_yw(text) *)
ConvertToYw ==
    /\ mkPc = "external"
    /\ mkText' = MdConvertToYw(mkText, mkMode)
    /\ mkPc' = "internal"
    /\ UNCHANGED <<mkInternal, mkMode, mkExported, mdVars, mergeVars,
                   cnvVars, htmlVars>>

MarkupNext == ConvertFromYw \/ ConvertToYw

SpecMarkup == MarkupInit /\ [][MarkupNext]_vars

(* the text holds no asterisk at all, so that no pair of asterisks in its  *)
(* translation is anything but the image of a tag                          *)
NoAsterisk(text) == \A i \in 1..Len(text) : text[i] # "*"

(* C12: with Markdown mode off, a markup text without asterisks that is    *)
(* translated to Markdown, back, and to Markdown again gives the same      *)
(* Markdown text both times.                                               *)
TranslationIsIdempotent ==
    (/\ ~mkMode /\ NoAsterisk(mkInternal) /\ Len(mkExported) = 2)
    => mkExported[2] = mkExported[1]

(***************************************************************************)
(* The merge state machine: a Yw7File is constructed for a path at which   *)
(* there is a project file or none, merges a source, and is written.       *)
(***************************************************************************)
(* the longest scene list of a source chapter *)
MaxSrtLen == 2

EntityIds == {"1", "2", "3"}

SceneListFields == {"characters", "locations", "items"}

(* a scene of a project file, every attribute set *)
FullScene(id) ==
    [f \in DOMAIN NewScene |->
       IF f = "title" THEN <<"S", id>>
       ELSE IF f = "sceneContent" THEN <<"o", "l", "d">>
       ELSE IF f = "wordCount" THEN 1
       ELSE IF f = "letterCount" THEN 3
       ELSE IF f = "status" THEN STATUS_DRAFT
       ELSE IF f \in SceneFlagFields \cup {"doNotExport"} THEN "False"
       ELSE IF f \in SceneListFields THEN <<"1">>
       ELSE <<"t">>]

FullChapter(id, srtScenes) ==
    [title |-> <<"C", id>>, desc |-> <<"t">>, chLevel |-> 0, oldType |-> 0,
     chType |-> 0, isUnused |-> "False", suppressChapterTitle |-> "False",
     isTrash |-> "False", suppressChapterBreak |-> "False",
     srtScenes |-> srtScenes]

FullWorldElement(id) ==
    [title |-> <<"W", id>>, image |-> <<"t">>, desc |-> <<"t">>,
     tags |-> <<"t">>, aka |-> <<"t">>]

FullCharacter(id) ==
    [title |-> <<"P", id>>, image |-> <<"t">>, desc |-> <<"t">>,
     tags |-> <<"t">>, aka |-> <<"t">>, notes |-> <<"t">>, bio |-> <<"t">>,
     goals |-> <<"t">>, fullName |-> <<"t">>, isMajor |-> "False"]

(* the dict with the given keys, Make(key) under each *)
DictOf(keys, Make(_)) ==
    [keys |-> keys,
     val |-> [k \in {keys[i] : i \in 1..Len(keys)} |-> Make(k)]]

TargetLayouts == {"two", "one", "notes", "bare", "counts"}

(* the project a target's file holds: two scenes in two chapters, or both  *)
(* in one, or in chapters of the Notes and the Unused type, or nothing;    *)
(* or two scenes whose WordCount and LetterCount were counted by another   *)
(* program than this one                                                   *)
TargetModel(layout) ==
    IF layout = "bare" THEN NewNovel
    ELSE
    LET chKeys == IF layout = "one" THEN <<"1">> ELSE <<"1", "2">>
        srtOf(chId) == IF layout = "one" THEN <<"1", "2">> ELSE <<chId>>
        chapterOf(chId) ==
            IF layout = "notes"
            THEN [FullChapter(chId, srtOf(chId)) EXCEPT
                    !.chType = IF chId = "1" THEN 1 ELSE 0,
                    !.isUnused = IF chId = "1" THEN "False" ELSE "True"]
            ELSE FullChapter(chId, srtOf(chId))
        notesScene(id) ==
            IF layout = "counts"
            THEN [FullScene(id) EXCEPT !.wordCount = 7, !.letterCount = 9]
            ELSE IF layout # "notes" THEN FullScene(id)
            ELSE IF id = "1"
            THEN [FullScene(id) EXCEPT !.isNotesScene = "True",
                                       !.isUnused = "True"]
            ELSE [FullScene(id) EXCEPT !.isUnused = "True"]
    IN  [NewNovel EXCEPT
           !.title = <<"N">>, !.desc = <<"t">>, !.author = <<"A">>,
           !.fieldTitle1 = <<"t">>, !.fieldTitle2 = <<"t">>,
           !.fieldTitle3 = <<"t">>, !.fieldTitle4 = <<"t">>,
           !.srtChapters = chKeys,
           !.chapters = DictOf(chKeys, chapterOf),
           !.scenes = DictOf(<<"1", "2">>, notesScene),
           !.srtLocations = <<"1", "2">>,
           !.locations = DictOf(<<"1", "2">>, FullWorldElement),
           !.srtItems = <<"1">>,
           !.items = DictOf(<<"1">>, FullWorldElement),
           !.srtCharacters = <<"1">>,
           !.characters = DictOf(<<"1">>, FullCharacter)]

(* the sub-elements yWriter wrote for the scenes of such a project *)
TargetElements(layout) ==
    IF layout = "bare" THEN {}
    ELSE ({"1", "2"} \X SceneListFields)
           \cup (IF layout = "notes" THEN {<<"1", "Fields">>} ELSE {})

TargetFile(layout) == ProjectFile(TargetModel(layout), TargetElements(layout))

TargetFiles == {NoFile} \cup {TargetFile(l) : l \in TargetLayouts}

(* sources that differ in structure: which scenes and chapters they hold   *)
(* and which scenes each chapter lists; no attribute is set                *)
SourceSceneKeys == {<<>>, <<"2">>, <<"1", "2">>, <<"1", "2", "3">>}

SourceChapterKeys == {<<>>, <<"1">>, <<"3">>, <<"1", "2">>, <<"2", "1">>}

(* the scene orders of a source chapter: of scene "2", which every target   *)
(* file has, and scene "3", which none has                                 *)
SrtLists == SeqsUpTo({"2", "3"}, MaxSrtLen)

StructureSources ==
    {[NewNovel EXCEPT
        !.scenes = DictOf(scKeys, LAMBDA id : NewScene),
        !.srtChapters = chKeys,
        !.chapters =
           [keys |-> chKeys,
            val |-> [id \in {chKeys[i] : i \in 1..Len(chKeys)} |->
                       [NewChapter EXCEPT
                          !.srtScenes =
                             srt[CHOOSE i \in 1..Len(chKeys) : chKeys[i] = id]]]]] :
       scKeys \in SourceSceneKeys, chKeys \in SourceChapterKeys,
       srt \in [1..2 -> SrtLists]}

(* sources that differ in one attribute of one entity: the project, or     *)
(* scene, chapter, location, item or character "1"; the attribute is       *)
(* absent (None), blank ('', False, 0, []) or set                          *)
FlagFields ==
    SceneFlagFields
      \cup {"doNotExport", "suppressChapterTitle", "suppressChapterBreak",
            "isTrash", "isMajor"}

NumberFields == {"status", "chLevel", "oldType", "chType"}

ProbeValue(f, given) ==
    IF f \in FlagFields
    THEN (CASE given = "absent" -> NoneB [] given = "blank" -> "False"
            [] OTHER -> "True")
    ELSE IF f \in NumberFields
    THEN (CASE given = "absent" -> NoneI [] given = "blank" -> 0 [] OTHER -> 1)
    ELSE (CASE given = "absent" -> NoneT [] given = "blank" -> <<>>
            [] OTHER -> <<"1">>)

ProjectFields ==
    {"title", "desc", "author", "fieldTitle1", "fieldTitle2", "fieldTitle3",
     "fieldTitle4"}

Probes ==
    ({"project"} \X ProjectFields)
    \cup ({"scene"} \X (DOMAIN NewScene \ {"wordCount", "letterCount"}))
    \cup ({"chapter"} \X DOMAIN NewChapter)
    \cup ({"location", "item"} \X DOMAIN NewWorldElement)
    \cup ({"character"} \X DOMAIN NewCharacter)

(* the source of scenes "1" and "2", chapters "1" and "2", and location,   *)
(* item and character "1", nothing set but the probed attribute            *)
ProbeSource(probe, given) ==
    LET kind == probe[1]
        f == probe[2]
        v == ProbeValue(f, given)
        Set(entity, id, at) ==
            IF kind = at /\ id = "1"
            THEN (IF f = "sceneContent" /\ v # NoneT
                  THEN SetSceneContent(entity, v)
                  ELSE [entity EXCEPT ![f] = v])
            ELSE entity
        base ==
          [NewNovel EXCEPT
             !.scenes = DictOf(<<"1", "2">>,
                               LAMBDA id : Set(NewScene, id, "scene")),
             !.srtChapters = <<"1", "2">>,
             !.chapters =
                DictOf(<<"1", "2">>,
                       LAMBDA id : Set([NewChapter EXCEPT !.srtScenes = <<id>>],
                                       id, "chapter")),
             !.srtLocations = <<"1">>,
             !.locations = DictOf(<<"1">>,
                                  LAMBDA id : Set(NewWorldElement, id, "location")),
             !.srtItems = <<"1">>,
             !.items = DictOf(<<"1">>,
                              LAMBDA id : Set(NewWorldElement, id, "item")),
             !.srtCharacters = <<"1">>,
             !.characters = DictOf(<<"1">>,
                                   LAMBDA id : Set(NewCharacter, id, "character"))]
    IN  IF kind = "project" THEN [base EXCEPT ![f] = v] ELSE base

ProbeSources ==
    {ProbeSource(probe, given) :
        probe \in Probes, given \in {"absent", "blank", "set"}}

(* sources that differ in their world: the sort list and registry of one   *)
(* kind of world element, and what scene "1" refers to                     *)
SortListOf(kind) ==
    CASE kind = "characters" -> "srtCharacters"
      [] kind = "locations" -> "srtLocations"
      [] kind = "chapters" -> "srtChapters"
      [] OTHER -> "srtItems"

WorldSources ==
    {[NewNovel EXCEPT
        !.scenes = DictOf(<<"1">>,
                          LAMBDA id : [NewScene EXCEPT ![kind] = refs]),
        ![kind] =
           DictOf(srt, LAMBDA id : IF kind = "characters"
                                   THEN [NewCharacter EXCEPT !.title = <<"x">>]
                                   ELSE [NewWorldElement EXCEPT !.title = <<"x">>]),
        ![SortListOf(kind)] = srt] :
       kind \in SceneListFields,
       srt \in {<<>>, <<"1">>, <<"3">>, <<"2", "1">>},
       refs \in {NoneT, <<>>, <<"1">>, <<"3", "1">>}}

(* sources one of whose orderings names an id, "3", that its registry    *)
(* does not hold                                                           *)
DanglingSources ==
    {[NewNovel EXCEPT
        ![registry] =
           DictOf(<<"1">>,
                  LAMBDA id : IF registry = "chapters"
                              THEN [NewChapter EXCEPT !.title = <<"x">>,
                                                      !.srtScenes = <<>>]
                              ELSE IF registry = "characters"
                              THEN [NewCharacter EXCEPT !.title = <<"x">>]
                              ELSE [NewWorldElement EXCEPT !.title = <<"x">>]),
        ![SortListOf(registry)] = srt] :
       registry \in {"chapters", "characters", "locations", "items"},
       srt \in {<<"1", "3">>, <<"3">>}}

(* sources that hold a world element of one kind and do not list it in   *)
(* the ordering of the kind                                                *)
UnlistedSources ==
    {[NewNovel EXCEPT
        ![kind] = DictOf(<<"1">>,
                         LAMBDA id : IF kind = "characters"
                                     THEN [NewCharacter EXCEPT !.title = <<"x">>]
                                     ELSE [NewWorldElement EXCEPT !.title = <<"x">>])] :
       kind \in SceneListFields}

MergeInit ==
    /\ MdIdle
    /\ CnvIdle
    /\ MarkupIdle
    /\ HtmlIdle
    /\ target = NewNovel
    /\ loaded = NewNovel
    /\ message = NoMsg
    /\ mergePc = "start"
    /\ \/ /\ source \in StructureSources \cup ProbeSources \cup WorldSources
                         \cup DanglingSources \cup UnlistedSources
          /\ targetFile \in TargetFiles
          /\ targetLocked = FALSE
       \/ /\ source \in {ProbeSource(<<"scene", "desc">>, "set")}
          /\ targetFile \in {NoFile, TargetFile("two"),
                             [TargetFile("two") EXCEPT !.wellFormed = FALSE],
                             [TargetFile("two") EXCEPT !.writable = FALSE]}
          /\ targetLocked \in BOOLEAN

(* Yw7File.merge *)
Merge ==
    /\ mergePc = "start"
    /\ LET r == YwMerge(target, source, targetFile.exists, targetFile,
                        targetLocked)
       IN  /\ target' = r.self
           /\ loaded' = r.loaded
           /\ message' = r.message
    /\ mergePc' = "merged"
    /\ UNCHANGED <<targetFile, targetLocked, source, mdVars, cnvVars, markupVars,
                   htmlVars>>

(* Yw7File.write, when the merge returned SUCCESS *)
Write ==
    /\ mergePc = "merged"
    /\ IsSuccess(message)
    /\ LET w == YwWrite(target, targetFile, targetLocked)
       IN  /\ target' = w.self
           /\ targetFile' = w.file
           /\ message' = w.message
    /\ mergePc' = "written"
    /\ UNCHANGED <<targetLocked, source, loaded, mdVars, cnvVars, markupVars,
                   htmlVars>>

MergeNext == Merge \/ Write

SpecMerge == MergeInit /\ [][MergeNext]_vars


(***************************************************************************)
(* Properties of Yw7File.merge.  loaded is the target as its file gave it, *)
(* before anything of the source was taken over.                           *)
(***************************************************************************)
InBoth(registry) ==
    {id \in DOMAIN source[registry].val :
        Has(loaded[registry], id) /\ Has(target[registry], id)}

OptionalSceneFields == DOMAIN NewScene \ {"wordCount", "letterCount"}

(* the scene's attribute is None *)
Absent(sc, f) ==
    sc[f] = (IF f \in SceneFlagFields \cup {"doNotExport"} THEN NoneB
             ELSE IF f = "status" THEN NoneI
             ELSE NoneT)

(* C2: merge is non-destructive for scene fields: for a scene in source    *)
(* and target and an optional field the source leaves None, the target's   *)
(* value after the merge is the one it had before.                         *)
MergeKeepsSceneFields ==
    mergePc = "merged" =>
       \A scId \in InBoth("scenes") : \A f \in OptionalSceneFields :
          Absent(source.scenes.val[scId], f) =>
             target.scenes.val[scId][f] = loaded.scenes.val[scId][f]

(* a merge that changed a scene and kept a field the source leaves None *)
MergeKeepsSceneFieldsWitness ==
    /\ mergePc = "merged"
    /\ IsSuccess(message)
    /\ \E scId \in InBoth("scenes") : \E f \in OptionalSceneFields :
          /\ Absent(source.scenes.val[scId], f)
          /\ ~Absent(loaded.scenes.val[scId], f)
          /\ target.scenes.val[scId][f] = loaded.scenes.val[scId][f]
          /\ target.scenes.val[scId] # loaded.scenes.val[scId]

TitledRegistries == {"scenes", "chapters", "locations", "items", "characters"}

(* C3: a blank source title (None or '') never overwrites a non-blank      *)
(* target title: the project's, or that of a scene, chapter, location,     *)
(* item or character the target had before the merge.                      *)
BlankTitleKeepsTitle ==
    mergePc = "merged" =>
       /\ (~Truthy(source.title) /\ Truthy(loaded.title)) =>
             target.title = loaded.title
       /\ \A r \in TitledRegistries : \A id \in InBoth(r) :
             (~Truthy(source[r].val[id].title)
                /\ Truthy(loaded[r].val[id].title)) =>
                target[r].val[id].title = loaded[r].val[id].title

(* a merge that took over something from a source with an empty title      *)
(* where the target has one                                                *)
BlankTitleKeepsTitleWitness ==
    /\ mergePc = "merged"
    /\ IsSuccess(message)
    /\ target # loaded
    /\ \E r \in TitledRegistries : \E id \in InBoth(r) :
          /\ source[r].val[id].title = <<>>
          /\ Truthy(loaded[r].val[id].title)
          /\ target[r].val[id].title = loaded[r].val[id].title

(* the chapters whose scene order lists the scene *)
Owners(nv, scId) ==
    {chId \in DOMAIN nv.chapters.val : InSeq(scId, nv.chapters.val[chId].srtScenes)}

(* C4: after merge no scene id is in the scene order of more than one      *)
(* chapter of the target, the chapters the source does not mention         *)
(* included.                                                               *)
SingleOwner ==
    (mergePc = "merged" /\ IsSuccess(message)) =>
       \A scId \in EntityIds : Cardinality(Owners(target, scId)) <= 1

(* the source has a scene id or a chapter id the target lacks *)
SourceHasNewId ==
    \/ \E scId \in DOMAIN source.scenes.val : ~Has(loaded.scenes, scId)
    \/ \E chId \in DOMAIN source.chapters.val : ~Has(loaded.chapters, chId)

(* C5: merging a source that has a new scene or chapter id into a target   *)
(* whose tree was read from its file gives 'ERROR: Project structure       *)
(* mismatch.'; merging it into a fresh target gives SUCCESS and creates    *)
(* those scenes and chapters.                                              *)
MismatchOrCreated ==
    (mergePc = "merged" /\ SourceHasNewId) =>
       /\ loaded.tree = "tree" => message = MSG_MISMATCH
       /\ ~targetFile.exists =>
             /\ IsSuccess(message)
             /\ \A scId \in DOMAIN source.scenes.val : Has(target.scenes, scId)
             /\ \A chId \in DOMAIN source.chapters.val : Has(target.chapters, chId)


(* the ordering sequences of a project and their registries *)
Orderings ==
    {<<"srtChapters", "chapters">>, <<"srtCharacters", "characters">>,
     <<"srtLocations", "locations">>, <<"srtItems", "items">>}

(* C14: after merge, whatever the source, every id of the target's chapter, *)
(* character, location and item ordering has an entry in the registry of   *)
(* its kind; an id of a source ordering without registry entry is dropped  *)
(* without an exception, in the merge and in the tree builder of the write *)
(* that follows.                                                           *)
OrderingsHaveEntries ==
    mergePc \in {"merged", "written"} =>
       /\ message # Raised("KeyError")
       /\ \A o \in Orderings : ~Dangling(target[o[1]], target[o[2]])

(* C16: after a merge of a source whose ordering of locations, items or    *)
(* characters is empty, the target's registry of that kind, with every     *)
(* field of its entries, and the target's ordering of that kind are what   *)
(* they were before the merge.                                             *)
EmptyOrderingKeepsWorld ==
    mergePc = "merged" =>
       \A kind \in SceneListFields :
          source[SortListOf(kind)] = <<>> =>
             /\ target[kind] = loaded[kind]
             /\ target[SortListOf(kind)] = loaded[SortListOf(kind)]

(* a merge returned SUCCESS whose source lists no location, though it      *)
(* holds one, and whose target had locations                               *)
EmptyOrderingKeepsWorldWitness ==
    /\ mergePc = "merged" /\ IsSuccess(message)
    /\ source.srtLocations = <<>> /\ source.locations.keys # <<>>
    /\ loaded.srtLocations # <<>>

(* the projects held by the file objects of the three state machines *)
HeldProjects == {target, loaded, mdParsed.nv, cnvSource.nv, cnvTarget.nv}

(* C17: in every state, each scene of a project that was read, parsed or   *)
(* merged and has a content has, as its word count, the number of          *)
(* whitespace-delimited tokens of the content without bracket tags, '.',   *)
(* ',' and ' -', and as its letter count the length of the content without *)
(* bracket tags and line breaks.                                           *)
CountsAreDerived ==
    \A nv \in HeldProjects :
       \A scId \in DOMAIN nv.scenes.val :
          LET sc == nv.scenes.val[scId]
          IN  sc.sceneContent # NoneT =>
                 /\ sc.wordCount
                       = Len(Tokens(StripMarkupAndPunctuation(sc.sceneContent)))
                 /\ sc.letterCount
                       = Len(SelectSeq(StripTags(sc.sceneContent),
                                       LAMBDA c : c \notin {NL, "\r"}))

(* a project file whose counts disagree with its scene contents was read   *)
(* by a merge that gave scene "1" a new content                            *)
CountsAreDerivedWitness ==
    /\ mergePc = "merged" /\ IsSuccess(message)
    /\ targetFile = TargetFile("counts")
    /\ "1" \in DOMAIN source.scenes.val
    /\ targetFile.model.scenes.val["2"].wordCount
          # WordCountOf(targetFile.model.scenes.val["2"].sceneContent)
    /\ source.scenes.val["1"].sceneContent # NoneT
    /\ target.scenes.val["1"].sceneContent = source.scenes.val["1"].sceneContent
    /\ target.scenes.val["1"].sceneContent # loaded.scenes.val["1"].sceneContent

(* the world element's attribute has a value the merge takes: a truthy     *)
(* title, any other attribute not None                                     *)
HasValue(element, f) ==
    IF f = "title" THEN Truthy(element.title)
    ELSE element[f] # (IF f = "isMajor" THEN NoneB ELSE NoneT)

(* C18: after a merge, for every kind of world element whose ordering in   *)
(* the source is not empty, every id of that ordering and every field      *)
(* (title, image, desc, aka, tags; notes, bio, goals, fullName and isMajor *)
(* of a character), the target's entry has the source's value if the       *)
(* source has one, and otherwise the value the target had under that id    *)
(* before the merge, or that of a new element if it had none; alike for    *)
(* locations, items and characters.                                        *)
WorldElementsAreMerged ==
    (mergePc = "merged" /\ IsSuccess(message)) =>
       \A kind \in SceneListFields :
          \A i \in 1..Len(source[SortListOf(kind)]) :
             LET id == source[SortListOf(kind)][i]
                 new == IF kind = "characters" THEN NewCharacter
                        ELSE NewWorldElement
                 prior == IF Has(loaded[kind], id) THEN loaded[kind].val[id]
                          ELSE new
             IN  /\ Has(target[kind], id)
                 /\ \A f \in DOMAIN new :
                       target[kind].val[id][f] =
                          IF HasValue(source[kind].val[id], f)
                          THEN source[kind].val[id][f]
                          ELSE prior[f]

(* C19: after a merge, for every scene of the source and each of its       *)
(* lists of character, location and item ids that is not None, the merge   *)
(* has completed and the target's scene lists the source's ids, in the     *)
(* source's order, that the merged registry of that kind holds.            *)
SceneListsAreFiltered ==
    mergePc = "merged" =>
       \A scId \in DOMAIN source.scenes.val :
          \A kind \in SceneListFields :
             source.scenes.val[scId][kind] # NoneT =>
                /\ message.tag # "RAISE"
                /\ Has(target.scenes, scId)
                /\ target.scenes.val[scId][kind]
                      = FilterIds(source.scenes.val[scId][kind], target[kind])

(* C20: a merge that reaches its last step leaves the target with the      *)
(* source's chapter order whenever that order is not empty, whether the    *)
(* target had a chapter order of its own or not.                           *)
ChapterOrderIsOverwritten ==
    (/\ mergePc = "merged"
     /\ message \in {Msg("SUCCESS", ""), MSG_MISMATCH}
     /\ source.srtChapters # <<>>)
       => target.srtChapters = source.srtChapters

(***************************************************************************)
(* The converter's state machine: MdConverter.run, and YwCnv.convert       *)
(* called on file objects of one's own, one stage of convert() a step.     *)
(***************************************************************************)
(* the most calls of run() and convert() in a behaviour *)
MaxRuns == 2

P_YW7 == <<"p", ".", "y", "w", "7">>

P_MD == <<"p", ".", "m", "d">>

P_HTML == <<"p", ".", "h", "t", "m", "l">>

X_MD == <<"p", "_", "x", "r", "e", "f", ".", "m", "d">>

X_YW7 == <<"p", "_", "x", "r", "e", "f", ".", "y", "w", "7">>

Q_MD == <<"q", ".", "m", "d">>

T_TXT == <<"t", ".", "t", "x", "t">>

LOCK == <<".", "l", "o", "c", "k">>

(* the arguments of run(): a project, documents, and a path without file *)
SourcePaths == {P_YW7, P_MD, P_HTML, X_MD, Q_MD, T_TXT}

Event(type, name) == [type |-> type, name |-> name, attrs |-> <<>>]

(* <h1>C</h1><p>a b</p> and <h1>C</h1><h3>S</h3><p>d</p> *)
HtmlDocuments ==
    {<<Event("start", "h1"), Event("data", <<"C">>), Event("end", "h1"),
       Event("start", "p"), Event("data", <<"a", " ", "b">>),
       Event("end", "p")>>,
     <<Event("start", "h1"), Event("data", <<"C">>), Event("end", "h1"),
       Event("start", "h3"), Event("data", <<"S">>), Event("end", "h3"),
       Event("start", "p"), Event("data", <<"d">>), Event("end", "p")>>}

(* a chapter of one scene, and a chapter of three *)
CnvMdDocuments ==
    {Join(<<<<"#", " ", "C">>, <<>>, <<"a", " ", "b">>, <<>>>>, <<NL>>),
     Join(<<<<"#", " ", "C">>, <<>>, <<"a">>, <<>>, SCENE_DIVIDER, <<>>,
            <<"b">>, <<>>, SCENE_DIVIDER, <<>>, <<"c">>, <<>>>>, <<NL>>)}

Undecodable == [TextFile(<<>>) EXCEPT !.decodable = FALSE]

CnvFileSystems ==
    {(P_YW7 :> yw7) @@ (P_YW7 \o LOCK :> lock) @@ (P_MD :> md)
       @@ (P_HTML :> html) @@ (X_MD :> xref) @@ (X_YW7 :> xref)
       @@ (T_TXT :> txt) :
       yw7 \in {NoFile, TargetFile("two"),
                [TargetFile("two") EXCEPT !.wellFormed = FALSE]},
       lock \in {NoFile, TextFile(<<>>)},
       md \in {NoFile, Undecodable} \cup {TextFile(t) : t \in CnvMdDocuments},
       html \in {NoFile, Undecodable} \cup {TextFile(t) : t \in HtmlDocuments},
       xref \in {NoFile, TextFile(<<"#", " ", "C">>)},
       txt \in {NoFile, TextFile(<<"#", " ", "C">>)}}

CnvInit ==
    /\ MdIdle
    /\ MergeIdle
    /\ MarkupIdle
    /\ HtmlIdle
    /\ cnvFs \in CnvFileSystems
    /\ cnvOptions \in {[markdownMode |-> FALSE, noSceneTitles |-> FALSE],
                       [markdownMode |-> TRUE, noSceneTitles |-> TRUE]}
    /\ cnvPc = "idle"
    /\ cnvCaller = "None"
    /\ cnvSourcePath = NoneT
    /\ cnvSource = NoObject
    /\ cnvTarget = NoObject
    /\ cnvMessage = NoMsg
    /\ cnvLog = <<>>
    /\ cnvInfoHow = NoMsg
    /\ cnvNewFile = NoneT
    /\ cnvRuns = 0

(* YwCnvUi.run up to the call of convert(): the file objects of the        *)
(* factories and, where run() ends without converting, its message         *)
RunPlan(fs, sourcePath) ==
    LET export == ExportSourceFactory(sourcePath)
        exportTarget == ExportTargetFactory(sourcePath, <<>>)
        importSource == ImportSourceFactory(sourcePath)
        new == NewProjectFactory(fs, sourcePath)
        end(m) == [caller |-> "None", message |-> m,
                   source |-> NoObject, target |-> NoObject]
    IN  IF ~IsFile(fs, sourcePath) THEN end(Msg("ERROR", "File not found."))
        ELSE IF IsSuccess(export.message)
        THEN IF IsSuccess(exportTarget.message)
             THEN [caller |-> "export_from_yw", message |-> NoMsg,
                   source |-> export.source, target |-> exportTarget.target]
             ELSE end(exportTarget.message)
        ELSE IF IsSuccess(importSource.message) THEN end(importSource.message)
        ELSE IF IsSuccess(new.message)
        (* create_yw7 *)
        THEN IF IsFile(fs, new.target.path)
             THEN end(Msg("ERROR", "already exists."))
             ELSE [caller |-> "create_yw7", message |-> NoMsg,
                   source |-> new.source, target |-> new.target]
        ELSE end(new.message)

(* YwCnvUi.run(sourcePath) *)
Run(sourcePath) ==
    /\ cnvPc = "idle"
    /\ cnvRuns < MaxRuns
    /\ cnvRuns' = cnvRuns + 1
    /\ cnvSourcePath' = sourcePath
    /\ cnvNewFile' = NoneT
    /\ cnvLog' = <<>>
    /\ \E plan \in {RunPlan(cnvFs, sourcePath)} :
           /\ cnvCaller' = plan.caller
           /\ cnvSource' = plan.source
           /\ cnvTarget' = plan.target
           /\ cnvMessage' = plan.message
           /\ cnvPc' = IF plan.caller = "None" THEN "idle" ELSE "convert"
           /\ cnvInfoHow' = IF IsError(plan.message) THEN plan.message
                            ELSE cnvInfoHow
    /\ UNCHANGED <<cnvFs, cnvOptions, mdVars, mergeVars, markupVars, htmlVars>>

(* YwCnv.convert(sourceFile, targetFile) called with an MdFile and a       *)
(* Yw7File of one's own                                                    *)
Convert(sourcePath, targetPath) ==
    /\ cnvPc = "idle"
    /\ cnvRuns < MaxRuns
    /\ cnvRuns' = cnvRuns + 1
    /\ cnvCaller' = "direct"
    /\ cnvSourcePath' = NoneT
    /\ cnvSource' = FileObject("MdFile", sourcePath)
    /\ cnvTarget' = FileObject("Yw7File", targetPath)
    /\ cnvMessage' = NoMsg
    /\ cnvLog' = <<>>
    /\ cnvPc' = "convert"
    /\ UNCHANGED <<cnvFs, cnvOptions, cnvInfoHow, cnvNewFile, mdVars,
                   mergeVars, markupVars, htmlVars>>


(* a primitive operation that saves the new file pathname whatever the     *)
(* message, for comparison                                                 *)
ReturnWithNewFile(m) ==
    /\ cnvPc' = "idle"
    /\ cnvMessage' = m
    /\ cnvInfoHow' = IF cnvCaller = "direct" \/ m.tag = "RAISE"
                     THEN cnvInfoHow ELSE m
    /\ cnvNewFile' = IF cnvCaller = "direct" THEN cnvNewFile
                     ELSE cnvTarget.path

(* how convert() ends: with the message returned to run()'s primitive      *)
(* operation, which hands it to the Ui and sets newFile, or with an        *)
(* exception that passes through run()                                     *)
Return(m) ==
    /\ cnvPc' = "idle"
    /\ cnvMessage' = m
    /\ cnvInfoHow' = IF cnvCaller = "direct" \/ m.tag = "RAISE"
                     THEN cnvInfoHow ELSE m
    /\ cnvNewFile' = IF cnvCaller = "direct" THEN cnvNewFile
                     ELSE IF IsSuccess(m) THEN cnvTarget.path
                     ELSE NoneT

(* a stage of convert() has returned m: go on, or return it *)
Proceed(m, nextPc) ==
    IF m.tag = "RAISE" \/ IsError(m) THEN Return(m)
    ELSE /\ cnvPc' = nextPc
         /\ UNCHANGED <<cnvMessage, cnvInfoHow, cnvNewFile>>

Called(call, m) == cnvLog' = Append(cnvLog, [call |-> call, message |-> m])

(* a test that lets every answer pass, for comparison *)
CanceledNever(exists, answer) == FALSE

(* if targetFile.file_exists() and not self.confirm_overwrite(...) *)
Canceled(exists, answer) == exists /\ ~answer

(* YwCnv.convert: the initial error handling; os.path.normpath(None)       *)
(* raises TypeError.  YwCnvUi.confirm_overwrite asks the Ui.               *)
ConvertCheck ==
    /\ cnvPc = "convert"
    /\ IF cnvSource.path = NoneT \/ cnvTarget.path = NoneT
       THEN Return(Raised("TypeError")) /\ UNCHANGED cnvLog
       ELSE IF ~IsFile(cnvFs, cnvSource.path)
       THEN Return(Msg("ERROR", "not found.")) /\ UNCHANGED cnvLog
       ELSE IF ~IsFile(cnvFs, cnvTarget.path)
       THEN Proceed(NoMsg, "read") /\ UNCHANGED cnvLog
       ELSE \E answer \in BOOLEAN :
               /\ Called("ask_yes_no",
                         Msg("None", IF answer THEN "True" ELSE "False"))
               /\ IF Canceled(TRUE, answer)
                  THEN Return(Msg("ERROR", "Action canceled by user."))
                  ELSE Proceed(NoMsg, "read")
    /\ UNCHANGED <<cnvFs, cnvOptions, cnvCaller, cnvSourcePath, cnvSource,
                   cnvTarget, cnvRuns, mdVars, mergeVars, markupVars,
                   htmlVars>>

(* sourceFile.read(): [self, message] *)
SourceRead(sourceObj, fs, options) ==
    LET file == FileAt(fs, sourceObj.path)
    IN  CASE sourceObj.class = "MdFile" ->
                MdFileRead(sourceObj.nv, file, options)
          [] sourceObj.class \in {"HtmlImport", "HtmlOutline"} ->
                HtmlFileRead(sourceObj.class, sourceObj.nv, file)
          [] OTHER ->
                YwRead(sourceObj.nv, file, IsLocked(fs, sourceObj.path))

(* message = sourceFile.read() *)
ConvertRead ==
    /\ cnvPc = "read"
    /\ \E r \in {SourceRead(cnvSource, cnvFs, cnvOptions)} :
           /\ cnvSource' = [cnvSource EXCEPT !.nv = r.self]
           /\ Called("read", r.message)
           /\ Proceed(r.message, "merge")
    /\ UNCHANGED <<cnvFs, cnvOptions, cnvCaller, cnvSourcePath, cnvTarget,
                   cnvRuns, mdVars, mergeVars, markupVars, htmlVars>>

(* targetFile.merge(sourceFile): [self, message] *)
TargetMerge(targetObj, sourceObj, fs) ==
    IF targetObj.class = "MdFile"
    THEN [self |-> FileExportMerge(targetObj.nv, sourceObj.nv),
          message |-> Msg("SUCCESS", "")]
    ELSE LET r == YwMerge(targetObj.nv, sourceObj.nv,
                          IsFile(fs, targetObj.path),
                          FileAt(fs, targetObj.path),
                          IsLocked(fs, targetObj.path))
         IN  [self |-> r.self, message |-> r.message]

(* message = targetFile.merge(sourceFile) *)
ConvertMerge ==
    /\ cnvPc = "merge"
    /\ \E r \in {TargetMerge(cnvTarget, cnvSource, cnvFs)} :
           /\ cnvTarget' = [cnvTarget EXCEPT !.nv = r.self]
           /\ Called("merge", r.message)
           /\ Proceed(r.message, "write")
    /\ UNCHANGED <<cnvFs, cnvOptions, cnvCaller, cnvSourcePath, cnvSource,
                   cnvRuns, mdVars, mergeVars, markupVars, htmlVars>>

(* targetFile.write(): [self, file, message] *)
TargetWrite(targetObj, fs, options) ==
    LET file == FileAt(fs, targetObj.path)
        md == FileExportWrite(targetObj.nv, file, options)
    IN  IF targetObj.class = "MdFile"
        THEN [self |-> targetObj.nv, file |-> md.file, message |-> md.message]
        ELSE YwWrite(targetObj.nv, file, IsLocked(fs, targetObj.path))

(* return targetFile.write() *)
ConvertWrite ==
    /\ cnvPc = "write"
    /\ \E r \in {TargetWrite(cnvTarget, cnvFs, cnvOptions)} :
           /\ cnvTarget' = [cnvTarget EXCEPT !.nv = r.self]
           /\ cnvFs' = [cnvFs EXCEPT ![cnvTarget.path] = r.file]
           /\ Called("write", r.message)
           /\ Return(r.message)
    /\ UNCHANGED <<cnvOptions, cnvCaller, cnvSourcePath, cnvSource, cnvRuns,
                   mdVars, mergeVars, markupVars, htmlVars>>

CnvNext ==
    \/ \E sourcePath \in SourcePaths : Run(sourcePath)
    \/ Convert(P_MD, P_YW7)
    \/ ConvertCheck
    \/ ConvertRead
    \/ ConvertMerge
    \/ ConvertWrite

SpecCnv == CnvInit /\ [][CnvNext]_vars


(***************************************************************************)
(* Properties of the converter.                                            *)
(***************************************************************************)
(* the calls to the file objects in the last run()/convert() *)
Stages == SelectSeq(cnvLog, LAMBDA e : e.call # "ask_yes_no")

(* C6: convert() runs source.read, target.merge, target.write in this      *)
(* order, a stage only after every earlier one returned SUCCESS; the first *)
(* ERROR is what convert() returns, so nothing is written after a failed   *)
(* read or merge.                                                          *)
StagesInOrder ==
    /\ Len(Stages) <= 3
    /\ \A i \in 1..Len(Stages) :
          /\ Stages[i].call = <<"read", "merge", "write">>[i]
          /\ i > 1 => IsSuccess(Stages[i - 1].message)
          /\ Stages[i].message.tag = "ERROR" =>
                /\ i = Len(Stages)
                /\ cnvPc = "idle"
                /\ cnvMessage = Stages[i].message

(* a merge that failed after a read that succeeded: convert() returned     *)
(* the merge's message and wrote nothing                                   *)
StagesInOrderWitness ==
    /\ cnvPc = "idle"
    /\ Len(Stages) = 2
    /\ IsSuccess(Stages[1].message)
    /\ Stages[2].message = MSG_MISMATCH
    /\ cnvMessage = MSG_MISMATCH

LockFileAt(filePath) == IsFile(cnvFs, filePath \o LOCK)

(* C7: with a file '<path>.lock' next to a project, Yw7File.read (called   *)
(* by convert() or by merge()) and Yw7File.write return the ERROR 'yWriter *)
(* seems to be open' at once: the files and the object's project, its tree *)
(* included, stay as they are, and convert() returns without another try.  *)
LockedIsRefused ==
    [][/\ (/\ cnvPc = "read"
           /\ cnvSource.class = "Yw7File"
           /\ LockFileAt(cnvSource.path))
          => /\ cnvMessage' = MSG_LOCKED
             /\ cnvPc' = "idle"
             /\ cnvFs' = cnvFs
             /\ cnvSource' = cnvSource
             /\ cnvLog' = Append(cnvLog, [call |-> "read",
                                          message |-> MSG_LOCKED])
       /\ (/\ cnvPc = "merge"
           /\ cnvTarget.class = "Yw7File"
           /\ IsFile(cnvFs, cnvTarget.path)
           /\ LockFileAt(cnvTarget.path))
          => /\ cnvMessage' = MSG_LOCKED
             /\ cnvPc' = "idle"
             /\ cnvFs' = cnvFs
             /\ cnvTarget' = cnvTarget
       /\ (/\ cnvPc = "write"
           /\ cnvTarget.class = "Yw7File"
           /\ LockFileAt(cnvTarget.path))
          => /\ cnvMessage' = MSG_LOCKED
             /\ cnvPc' = "idle"
             /\ cnvFs' = cnvFs
             /\ cnvTarget' = cnvTarget
             /\ cnvLog' = Append(cnvLog, [call |-> "write",
                                          message |-> MSG_LOCKED])]_vars

(* a project that was merged and then not written, yWriter being open *)
LockedIsRefusedWitness ==
    /\ cnvPc = "idle"
    /\ Len(Stages) = 3
    /\ Stages[3] = [call |-> "write", message |-> MSG_LOCKED]
    /\ LockFileAt(cnvTarget.path)
    /\ ~IsFile(cnvFs, cnvTarget.path)

(* run() is called with an existing Markdown or HTML file while a .yw7     *)
(* file of the same base name exists                                       *)
RunsOnDocumentOfProject ==
    /\ cnvPc = "idle"
    /\ cnvRuns' = cnvRuns + 1
    /\ cnvSourcePath' # NoneT
    /\ \/ EndsWith(cnvSourcePath', EXTENSION("MdFile"))
       \/ EndsWith(cnvSourcePath', EXTENSION("HtmlImport"))
    /\ IsFile(cnvFs, cnvSourcePath')
    /\ IsFile(cnvFs, SplitExtRoot(cnvSourcePath') \o EXTENSION("Yw7File"))

(* C8: existing yWriter projects are not overwritten: run() on a Markdown  *)
(* or HTML source whose .yw7 file exists reports the ERROR 'already        *)
(* exists', calls neither read nor merge nor write, asks nothing, and      *)
(* leaves the files as they are.                                           *)
ExistingProjectIsKept ==
    [][RunsOnDocumentOfProject
         => /\ cnvInfoHow' = Msg("ERROR", "already exists.")
            /\ cnvPc' = "idle"
            /\ cnvLog' = <<>>
            /\ cnvFs' = cnvFs]_vars

(* convert() is about to ask: source and target file exist *)
AboutToAsk ==
    /\ cnvPc = "convert"
    /\ cnvSource.path # NoneT /\ cnvTarget.path # NoneT
    /\ IsFile(cnvFs, cnvSource.path)
    /\ IsFile(cnvFs, cnvTarget.path)

(* C9: when the target file exists, convert() asks the yes/no collaborator *)
(* before any stage; on a "no" it returns 'ERROR: Action canceled by       *)
(* user.' and nothing is read, merged or written.                          *)
DeclinedIsCanceled ==
    [][AboutToAsk
         => /\ Len(cnvLog') = 1
            /\ cnvLog'[1].call = "ask_yes_no"
            /\ cnvLog'[1].message.text = "False"
                 => /\ cnvMessage' = Msg("ERROR", "Action canceled by user.")
                    /\ cnvPc' = "idle"
                    /\ cnvFs' = cnvFs
                    /\ cnvSource' = cnvSource
                    /\ cnvTarget' = cnvTarget]_vars

(* a conversion the collaborator declined *)
DeclinedIsCanceledWitness ==
    /\ cnvPc = "idle"
    /\ cnvLog = <<[call |-> "ask_yes_no", message |-> Msg("None", "False")]>>
    /\ cnvMessage = Msg("ERROR", "Action canceled by user.")
    /\ IsFile(cnvFs, cnvTarget.path)

(* run() was called on a file there is *)
RunsOnFile ==
    /\ cnvRuns' = cnvRuns + 1
    /\ cnvSourcePath' # NoneT
    /\ IsFile(cnvFs, cnvSourcePath')

(* C13: run() on an existing file whose extension is '.yw6' or '.yw7'      *)
(* goes on to create a Markdown document from the project; run() on any    *)
(* other existing file, no project being in the way, takes the file for a  *)
(* Markdown file and goes on to create a yWriter 7 project from it.        *)
SourcePathSelectsConversion ==
    [][RunsOnFile =>
          IF SplitExtExtension(cnvSourcePath')
                \in {EXTENSION("Yw7File"), EXTENSION("Yw6File")}
          THEN /\ cnvCaller' = "export_from_yw"
               /\ cnvTarget'.class = "MdFile"
          ELSE ~IsFile(cnvFs, SplitExtRoot(cnvSourcePath')
                                \o EXTENSION("Yw7File"))
               => /\ cnvCaller' = "create_yw7"
                  /\ cnvSource'.class = "MdFile"
                  /\ cnvTarget'.class = "Yw7File"]_vars

(* the last call was run(), and it has ended *)
AfterRun == cnvPc = "idle" /\ cnvRuns > 0 /\ cnvCaller # "direct"

(* run() is at work *)
InRun == cnvPc # "idle" /\ cnvCaller # "direct"

(* C29: after any sequence of run() calls, newFile is not None exactly     *)
(* when the most recent run ended with a message starting with SUCCESS,    *)
(* and it is then the path of that run's target file, which exists; a run  *)
(* that ends in an error or an exception leaves newFile None, whatever the *)
(* runs before it did, and so it is while a run is at work.                *)
NewFileIsLastSuccess ==
    /\ AfterRun
       => /\ (cnvNewFile # NoneT) <=> IsSuccess(cnvMessage)
          /\ IsSuccess(cnvMessage)
             => /\ cnvNewFile = cnvTarget.path
                /\ cnvNewFile
                      = IF cnvSourcePath = P_YW7 THEN P_MD ELSE P_YW7
                /\ IsFile(cnvFs, cnvNewFile)
    /\ InRun => cnvNewFile = NoneT

(* a run that exported the project to p.md, then a run that ended in an    *)
(* error: newFile is None again                                            *)
NewFileIsLastSuccessWitness ==
    /\ AfterRun
    /\ cnvRuns = 2
    /\ IsError(cnvMessage)
    /\ cnvNewFile = NoneT
    /\ IsFile(cnvFs, P_MD)
    /\ cnvFs[P_MD].decodable
    /\ cnvFs[P_MD].text \notin CnvMdDocuments

(***************************************************************************)
(* The freeform HTML import: HtmlFile.read of an HtmlImport, one handler   *)
(* call of HTMLParser.feed() a step.                                       *)
(***************************************************************************)
(* the most blocks (headings, paragraphs, divs) of a document *)
MaxBlocks == 4

(* <h1>C</h1> and <h2>C</h2> *)
HeadingBlock(tag) ==
    <<Event("start", tag), Event("data", <<"C">>), Event("end", tag)>>

(* <p>data</p> *)
ParagraphBlock(data) ==
    <<Event("start", "p"), Event("data", data), Event("end", "p")>>

(* <p>first<br>second</p> *)
BrokenParagraphBlock(first, second) ==
    <<Event("start", "p"), Event("data", first), Event("start", "br"),
      Event("data", second), Event("end", "p")>>

HtmlBlocks ==
    {HeadingBlock("h1"), HeadingBlock("h2"),
     ParagraphBlock(<<"a", " ", "b">>),
     ParagraphBlock(TenWords),
     ParagraphBlock(SCENE_DIVIDER),
     ParagraphBlock(<<"/", "*", "T", "*", "/", "c">>),
     BrokenParagraphBlock(<<"a", " ", "b">>, <<"x", " ">> \o SCENE_DIVIDER),
     <<Event("start", "div")>>}

RECURSIVE HtmlTexts(_)
HtmlTexts(n) ==
    IF n = 0 THEN {<<>>}
    ELSE LET shorter == HtmlTexts(n - 1)
         IN  shorter \cup {t \o b : t \in shorter, b \in HtmlBlocks}

HtmlInit ==
    /\ MdIdle
    /\ MergeIdle
    /\ CnvIdle
    /\ MarkupIdle
    /\ htmlText \in HtmlTexts(MaxBlocks)
    /\ htmlFile = ReaderStart(NewNovel)
    /\ htmlPc = "feed"

(* what feed() does with the handler's result *)
Handled(st) ==
    /\ htmlFile' = st
    /\ htmlText' = Tail(htmlText)
    /\ htmlPc' = IF st.exc # "None" THEN "raised" ELSE "feed"
    /\ UNCHANGED <<mdVars, mergeVars, cnvVars, markupVars>>

(* HtmlImport.handle_starttag(tag, attrs) *)
HandleStarttag ==
    /\ htmlPc = "feed" /\ htmlText # <<>> /\ Head(htmlText).type = "start"
    /\ \E st \in {HtmlStartTag("HtmlImport", htmlFile, Head(htmlText).name,
                               Head(htmlText).attrs)} : Handled(st)

(* HtmlImport.handle_endtag(tag) *)
HandleEndtag ==
    /\ htmlPc = "feed" /\ htmlText # <<>> /\ Head(htmlText).type = "end"
    /\ \E st \in {HtmlEndTag("HtmlImport", htmlFile, Head(htmlText).name)} :
          Handled(st)

(* HtmlImport.handle_data(data) *)
HandleData ==
    /\ htmlPc = "feed" /\ htmlText # <<>> /\ Head(htmlText).type = "data"
    /\ \E st \in {HtmlData("HtmlImport", htmlFile, Head(htmlText).name)} :
          Handled(st)

(* feed() is through: self.postprocess(); return 'SUCCESS' *)
HtmlReturn ==
    /\ htmlPc = "feed" /\ htmlText = <<>>
    /\ htmlPc' = "fed"
    /\ UNCHANGED <<htmlText, htmlFile, mdVars, mergeVars, cnvVars,
                   markupVars>>

HtmlNext == HandleStarttag \/ HandleEndtag \/ HandleData \/ HtmlReturn

SpecHtml == HtmlInit /\ [][HtmlNext]_vars

(* the event the next handler call is made with *)
HtmlEvent == Head(htmlText)

IsEvent(type, name) ==
    /\ htmlPc = "feed" /\ htmlText # <<>>
    /\ HtmlEvent.type = type
    /\ type = "data" \/ HtmlEvent.name = name

(* the scene that is open, before and after the handler call *)
OpenScene == htmlFile.nv.scenes.val[htmlFile.scId]

OpenSceneAfter == htmlFile'.nv.scenes.val[htmlFile.scId]

SceneTitleN(n) == <<"S", "c", "e", "n", "e", " ">> \o IdStr(n)

=========================================================================
